---- MODULE Spec2Model ----
(***************************************************************************)
(* simple-coredns-manager: the configuration codec and safe-persistence    *)
(* layer (internal/coredns) and the locking discipline of its callers      *)
(* (internal/handlers).                                                    *)
(*                                                                         *)
(* Text is a sequence of tokens.  A token is a record: LF and CR are the   *)
(* two line-ending bytes, every other token is a run of text that holds    *)
(* no line ending and no leading or trailing blank.  File names and domain *)
(* names are sequences of one-character strings.                           *)
(***************************************************************************)
EXTENDS Integers, Sequences, FiniteSets, TLC

VARIABLES
    domain,     \* SpecDomain: the name handed to ValidateDomain
    verr,       \* SpecDomain: what ValidateDomain returned for it
    disk,       \* the directory: file name -> [data, mode]
    prevDisk,   \* the directory as it was when the last call began
    aw,         \* SpecAtomic: the atomicWrite call in progress
    seen,       \* SpecAtomic: what a concurrent reader of the target last read
    clock,      \* the day time.Now() falls on
    ret,        \* the last manager call: operation, domain, error, system calls
    editor,     \* SpecSerial: the zone text an open editor page holds
    inc,        \* SpecIncrement: the text handed to incrementSOASerial and its result
    reqs,       \* SpecHandlers: the requests in flight, one per goroutine
    mu,         \* SpecHandlers: Handler.mu, the set of goroutines that hold it
    call        \* SpecZone, SpecGSLB: the arguments of the last manager call

domVars == <<domain, verr>>
awVars == <<aw, seen>>
mgrVars == <<clock, ret, editor, inc>>
hVars == <<reqs, mu>>
callVars == <<call>>
vars == <<domain, verr, disk, prevDisk, aw, seen, clock, ret, editor, inc, reqs, mu, call>>

(***************************************************************************)
(* Bounds of the model.                                                    *)
(***************************************************************************)
MaxDomainLen == 4
MaxWriteLen == 2

(***************************************************************************)
(* Generic helpers.                                                        *)
(***************************************************************************)
SeqsUpTo(S, n) == UNION {[1..k -> S] : k \in 0..n}

\* strings.Contains(s, sub) for sequences.
Contains(s, sub) ==
    \E i \in 1..(Len(s) - Len(sub) + 1) : SubSeq(s, i, i + Len(sub) - 1) = sub

\* strings.ContainsAny(s, chars).
ContainsAny(s, chars) == \E i \in 1..Len(s) : s[i] \in chars

\* strings.HasPrefix / strings.HasSuffix.
HasPrefix(s, p) == Len(s) >= Len(p) /\ SubSeq(s, 1, Len(p)) = p
HasSuffix(s, p) == Len(s) >= Len(p) /\ SubSeq(s, Len(s) - Len(p) + 1, Len(s)) = p

(***************************************************************************)
(* ValidateDomain (zone.go:18, 64-79).                                     *)
(***************************************************************************)
\* The characters the model draws names from: a lower-case letter, an
\* upper-case letter, a digit, the two legal separators, the two path
\* separators and one character outside every class.
DomainChars == {"a", "Z", "7", ".", "-", "/", "\\", "_"}
AlNum == {"a", "Z", "7", "d", "b", "y", "m", "l"}

\* validDomainRe = ^[a-zA-Z0-9][a-zA-Z0-9.-]*[a-zA-Z0-9]$ run as the automaton
\* the expression compiles to: q0 -first class-> q1, q1 -interior class-> q1,
\* q1 -last class-> q2 (accepting); the set of states after each character.
ReStep(states, c) ==
    (IF 0 \in states /\ c \in AlNum THEN {1} ELSE {})
    \cup (IF 1 \in states /\ c \in AlNum \cup {".", "-"} THEN {1} ELSE {})
    \cup (IF 1 \in states /\ c \in AlNum THEN {2} ELSE {})

\* The states after the string; no state left, no match.
RECURSIVE ReRun(_, _)
ReRun(states, s) ==
    IF s = <<>> \/ states = {} THEN states ELSE ReRun(ReStep(states, Head(s)), Tail(s))

\* A mutant of the expression: the final class dropped, ^[a-zA-Z0-9][a-zA-Z0-9.-]*$.
validDomainReNoLast(s) == ReRun({0}, s) \cap {1, 2} # {}

validDomainRe(s) == 2 \in ReRun({0}, s)

ValidateDomain(d) ==
    IF d = <<>> THEN "domain cannot be empty"
    ELSE IF ContainsAny(d, {"/", "\\"}) THEN "domain contains invalid path characters"
    ELSE IF Contains(d, <<".", ".">>) THEN "domain contains path traversal sequence"
    ELSE IF ~validDomainRe(d) THEN "domain contains invalid characters"
    ELSE "nil"

DomainStrings == SeqsUpTo(DomainChars, MaxDomainLen)

(***************************************************************************)
(* Text tokens.                                                            *)
(***************************************************************************)
LF == [k |-> "lf"]
CR == [k |-> "cr"]
Txt(s) == [k |-> "txt", s |-> s]

IsSpace(t) == t.k \in {"lf", "cr"}

(***************************************************************************)
(* The directory and the system calls atomicWrite makes on it              *)
(* (zone.go:477-505, hosts.go:200-228, CorefileManager.Write).             *)
(***************************************************************************)
NoFile == [data |-> <<>>, mode |-> "absent"]
EmptyDisk == [f \in {} |-> NoFile]

\* os.Stat / os.ReadFile of a name.
FileAt(d, f) == IF f \in DOMAIN d THEN d[f] ELSE NoFile
Exists(d, f) == f \in DOMAIN d

zonePrefix == <<"d", "b", ".">>
hostsPrefix == <<"h", "o", "s", "t", "s", ".">>
gslbSuffix == <<".", "y", "m", "l">>

\* The names os.CreateTemp can pick for a pattern ".zone-*.tmp": the pattern
\* with its star replaced; more names than crashes can leave behind.
MaxCrashes == 1
TempNames(pattern) == {<<pattern, "t1", ".tmp">>, <<pattern, "t2", ".tmp">>,
                       <<pattern, "t3", ".tmp">>, <<pattern, "t4", ".tmp">>}
TempPatterns == {".zone-", ".hosts-", ".corefile-"}
AllTempNames == UNION {TempNames(p) : p \in TempPatterns}
LeftoverTemps(d) == DOMAIN d \cap AllTempNames

\* A mutant of the temporary name: the content is written in place.
TempNameInPlace(d, pattern, path) == path

\* os.CreateTemp(dir, pattern): a name of the pattern that no file has.
TempName(d, pattern, path) == CHOOSE f \in TempNames(pattern) : f \notin DOMAIN d

\* os.CreateTemp creates the file empty, mode 0600 (os.Create of an existing
\* name truncates it).
StCreate(d, f) ==
    [g \in DOMAIN d \cup {f} |-> IF g = f THEN [data |-> <<>>, mode |-> "0600"] ELSE d[g]]

\* tmp.WriteString: one more token of the content reaches the file.
StWrite(d, f, tok) == [d EXCEPT ![f].data = Append(@, tok)]

\* os.Chmod(tmpPath, info.Mode()) when os.Stat(path) succeeded.
StChmod(d, f, path) ==
    IF Exists(d, path) THEN [d EXCEPT ![f].mode = d[path].mode] ELSE d

\* os.Rename(tmpPath, path): the name path now holds the temporary file.
StRename(d, f, path) ==
    [g \in (DOMAIN d \ {f}) \cup {path} |-> IF g = path THEN d[f] ELSE d[g]]

\* A mutant of the clean-up: the temporary file is left behind.
StRemoveNot(d, f) == d

\* os.Remove(name).
StRemove(d, f) == [g \in DOMAIN d \ {f} |-> d[g]]

(***************************************************************************)
(* Text helpers: strings.ReplaceAll, Split, Join, TrimSpace on tokens.     *)
(***************************************************************************)
\* strings.ReplaceAll(content, "\r\n", "\n"): one pass, left to right, the
\* matches not overlapping.
RECURSIVE ReplaceCRLF(_)
ReplaceCRLF(s) ==
    IF Len(s) < 2 THEN s
    ELSE IF s[1] = CR /\ s[2] = LF THEN <<LF>> \o ReplaceCRLF(SubSeq(s, 3, Len(s)))
    ELSE <<s[1]>> \o ReplaceCRLF(Tail(s))

\* Write's normalisation (zone.go:147-150, hosts.go:113-116, gslb.go:165-168,
\* CorefileManager.Write): CRLF to LF, then an LF appended unless one ends it.
Normalize(content) ==
    LET c == ReplaceCRLF(content)
    IN IF HasSuffix(c, <<LF>>) THEN c ELSE c \o <<LF>>

\* strings.Split(s, "\n")
RECURSIVE SplitLF(_)
SplitLF(s) ==
    IF \A i \in 1..Len(s) : s[i] # LF THEN <<s>>
    ELSE LET i == CHOOSE j \in 1..Len(s) :
                     s[j] = LF /\ \A h \in 1..(j - 1) : s[h] # LF
         IN <<SubSeq(s, 1, i - 1)>> \o SplitLF(SubSeq(s, i + 1, Len(s)))

\* strings.Join(lines, "\n")
RECURSIVE JoinLF(_)
JoinLF(ls) ==
    IF ls = <<>> THEN <<>>
    ELSE IF Len(ls) = 1 THEN ls[1]
    ELSE ls[1] \o <<LF>> \o JoinLF(Tail(ls))

\* strings.TrimSpace(line): leading and trailing white space dropped.
RECURSIVE TrimLeft(_)
TrimLeft(s) == IF s # <<>> /\ IsSpace(Head(s)) THEN TrimLeft(Tail(s)) ELSE s
RECURSIVE TrimRight(_)
TrimRight(s) ==
    IF s # <<>> /\ IsSpace(s[Len(s)]) THEN TrimRight(SubSeq(s, 1, Len(s) - 1)) ELSE s
TrimSpace(s) == TrimRight(TrimLeft(s))

\* The sequence without its i-th element.
RemoveAt(s, i) == SubSeq(s, 1, i - 1) \o SubSeq(s, i + 1, Len(s))

(***************************************************************************)
(* Decimal strings: a number as text is the sequence of its digits.        *)
(***************************************************************************)
Digits == 0..9

\* time.Now().Format("20060102") on day t of the model's calendar.
TodayDigits(t) == <<2, 0, 2, 4, 0, 1, 0, 1 + t>>

\* strconv.Atoi of a two-digit string.
Atoi2(s) == s[1] * 10 + s[2]

\* fmt.Sprintf("%02d", n), 0 <= n <= 999: at least two digits, more when
\* the number needs them.
Fmt02(n) ==
    IF n < 100 THEN <<n \div 10, n % 10>>
    ELSE <<n \div 100, (n \div 10) % 10, n % 10>>

RECURSIVE StripZeros(_)
StripZeros(s) == IF Len(s) > 1 /\ s[1] = 0 THEN StripZeros(Tail(s)) ELSE s

RECURSIVE LexLess(_, _)
LexLess(a, b) ==
    IF a = <<>> THEN FALSE
    ELSE IF a[1] # b[1] THEN a[1] < b[1]
    ELSE LexLess(Tail(a), Tail(b))

\* a < b for two decimal strings read as numbers.
NumLess(a, b) ==
    LET x == StripZeros(a)
        y == StripZeros(b)
    IN Len(x) < Len(y) \/ (Len(x) = Len(y) /\ LexLess(x, y))

\* math.MaxUint32 = 4294967295, the largest value of SOAData.Serial.
MaxUint32Digits == <<4, 2, 9, 4, 9, 6, 7, 2, 9, 5>>
FitsUint32(s) == ~NumLess(MaxUint32Digits, s)

(***************************************************************************)
(* Zone text (zone.go).  Names, addresses and values are sequences of      *)
(* characters.  The line tokens of a zone file:                            *)
(*   $origin  "$ORIGIN <o>"             $ttl    "$TTL 3600"                *)
(*   soa(     "@ IN SOA <mname> <rname> ("                                 *)
(*   serial   "    <digits>" with or without " ; serial" after it          *)
(*   param    "    3600 ; refresh" and the three lines after it            *)
(*   )        ")"                       ;       a comment line             *)
(*   rr       "<name> [<ttl> ]IN <type> [<prio> ]<rdata>"                  *)
(*   junk     text that is no zone-file syntax                             *)
(***************************************************************************)
ZOrigin(o) == [k |-> "$origin", o |-> o]
ZTtl == [k |-> "$ttl"]
ZSoaOpen(o) == [k |-> "soa(", o |-> o]
ZSerial(digits, cm) == [k |-> "serial", digits |-> digits, cm |-> cm]
ZParam(p) == [k |-> "param", p |-> p]
ZClose == [k |-> ")"]
ZComment == [k |-> ";"]
ZJunk == [k |-> "junk"]
ZRR(name, ttl, type, prio, rdata) ==
    [k |-> "rr", name |-> name, ttl |-> ttl, type |-> type, prio |-> prio, rdata |-> rdata]

\* dns.Fqdn(s)
Fqdn(s) == IF s # <<>> /\ s[Len(s)] = "." THEN s ELSE s \o <<".">>

\* relativeName(fqdn, origin) (zone.go:371-385)
relativeName(fqdn, origin) ==
    LET f == Fqdn(fqdn)
        o == Fqdn(origin)
    IN IF f = o THEN <<"@">>
       ELSE IF HasSuffix(f, <<".">> \o o) THEN SubSeq(f, 1, Len(f) - Len(o) - 1)
       ELSE f

\* The zone parser's reading of a name in a record: "@" is the origin, a
\* name without a final dot is completed by the origin.
AbsName(n, origin) ==
    IF n = <<"@">> THEN origin
    ELSE IF n # <<>> /\ n[Len(n)] = "." THEN n
    ELSE n \o <<".">> \o origin

\* dns.IsDomainName, which the zone parser applies to the origin it is given,
\* to the name of a $ORIGIN directive and to every name once made absolute:
\* no label is longer than 63 octets.
MaxLabel == 63
IsDomainName(n) ==
    \A i \in 1..(Len(n) - MaxLabel) : \E j \in i..(i + MaxLabel) : n[j] = "."

NameChars == AlNum \cup {"n", "p", "r", "s", "w", "0", "1", "2", "-", "."}
ValidName(n) ==
    /\ n # <<>>
    /\ n = <<"@">> \/
       (/\ \A i \in 1..Len(n) : n[i] \in NameChars
        /\ n[1] # "."
        /\ ~Contains(n, <<".", ".">>)
        /\ IsDomainName(n))

IPv4s == {<<"1", "0", ".", "0", ".", "0", ".", "1">>, <<"1", "0", ".", "0", ".", "0", ".", "2">>}
IPv6s == {<<":", ":", "1">>}

\* The record types the manager knows (zone.go:22-29).
RecordTypes == {"A", "AAAA", "CNAME", "MX", "TXT", "NS"}

\* formatRecord (zone.go:388-407): the line for a Record.
formatRecord(rec) ==
    IF rec.Type = "MX"
    THEN <<ZRR(rec.Name, rec.TTL, "MX", rec.Priority, rec.Value)>>
    ELSE IF rec.Type = "TXT"
    THEN <<ZRR(rec.Name, rec.TTL, "TXT", -1,
               IF HasPrefix(rec.Value, <<"\"">>) THEN rec.Value
               ELSE <<"\"">> \o rec.Value \o <<"\"">>)>>
    ELSE <<ZRR(rec.Name, rec.TTL, rec.Type, -1, rec.Value)>>

\* The text between the quotes of a TXT value.
Unquote(v) ==
    IF Len(v) >= 2 /\ v[1] = "\"" /\ v[Len(v)] = "\"" THEN SubSeq(v, 2, Len(v) - 1) ELSE v

\* dns.ZoneParser on one record line: the owner made absolute, the value as
\* the library holds it.  ok is FALSE where the parser reports an error.
ParseRR(t, origin) ==
    LET bad == [ok |-> FALSE, name |-> <<>>, type |-> "", ttl |-> 0, value |-> <<>>, prio |-> 0]
        good(v, p) == [ok |-> TRUE, name |-> AbsName(t.name, origin), type |-> t.type,
                       ttl |-> t.ttl, value |-> v, prio |-> p]
    IN IF t.k # "rr" \/ ~ValidName(t.name) \/ ~IsDomainName(AbsName(t.name, origin)) THEN bad
       ELSE IF t.type = "A" THEN (IF t.rdata \in IPv4s /\ t.prio = -1 THEN good(t.rdata, 0) ELSE bad)
       ELSE IF t.type = "AAAA" THEN (IF t.rdata \in IPv6s /\ t.prio = -1 THEN good(t.rdata, 0) ELSE bad)
       ELSE IF t.type \in {"CNAME", "NS"}
            THEN (IF ValidName(t.rdata) /\ t.prio = -1 THEN good(AbsName(t.rdata, origin), 0) ELSE bad)
       ELSE IF t.type = "MX"
            THEN (IF ValidName(t.rdata) /\ t.prio >= 0 THEN good(AbsName(t.rdata, origin), t.prio) ELSE bad)
       ELSE IF t.type = "TXT"
            THEN (IF t.rdata # <<>> /\ t.prio = -1 THEN good(Unquote(t.rdata), 0) ELSE bad)
       ELSE bad

\* The line as the zone lexer sees it: a carriage return outside quotes is
\* dropped; a line of several tokens is no zone-file syntax.
LineTok(line) ==
    LET t == SelectSeq(line, LAMBDA x : x # CR)
    IN IF t = <<>> THEN [k |-> "blank"]
       ELSE IF Len(t) = 1 THEN t[1]
       ELSE ZJunk

\* matchesRecord (zone.go:410-444)
matchesRecord(line, name, rtype, value, origin) ==
    LET trimmed == TrimSpace(line)
    IN IF trimmed = <<>> \/ Head(trimmed).k \in {";", "$origin", "$ttl"} THEN FALSE
       ELSE LET rr == ParseRR(LineTok(trimmed), origin)
            IN /\ rr.ok
               /\ relativeName(rr.name, origin) = name
               /\ IF rr.type \in {"A", "AAAA", "TXT"}
                  THEN rtype = rr.type /\ rr.value = value
                  ELSE rtype = rr.type /\ (rr.value = value \/ rr.value = Fqdn(value))

\* The content Create writes (zone.go:167-182); the domain is valid, so
\* dns.Fqdn appends the dot.
CreateContent(dom, today) ==
    LET origin == Fqdn(dom)
    IN <<ZOrigin(origin), LF, ZTtl, LF, LF,
         ZSoaOpen(origin), LF,
         ZSerial(TodayDigits(today) \o <<0, 1>>, TRUE), LF,
         ZParam("refresh"), LF, ZParam("retry"), LF, ZParam("expire"), LF,
         ZParam("minimum"), LF, ZClose, LF, LF,
         ZRR(<<"@">>, 0, "NS", -1, <<"n", "s", "1", ".">> \o origin), LF>>

\* The first match of (\s+)(\d{10})(\s*;\s*serial), and failing one, of
\* (\s+)(\d{10})(\s): the index of the token, 0 when neither matches.  A
\* serial token carries the blanks before its digits; without the comment
\* the digits must be followed by white space.
SerialMatch(content) ==
    LET m1 == {i \in 1..Len(content) :
                  /\ content[i].k = "serial"
                  /\ Len(content[i].digits) = 10
                  /\ content[i].cm}
        m2 == {i \in 1..Len(content) :
                  /\ content[i].k = "serial"
                  /\ Len(content[i].digits) = 10
                  /\ i < Len(content)
                  /\ IsSpace(content[i + 1])}
        least(S) == CHOOSE i \in S : \A j \in S : i <= j
    IN IF m1 # {} THEN least(m1) ELSE IF m2 # {} THEN least(m2) ELSE 0

\* The serial that replaces oldSerial (zone.go:461-472).
NewSerial(oldSerial, today) ==
    IF HasPrefix(oldSerial, today)
    THEN today \o Fmt02(Atoi2(SubSeq(oldSerial, 9, 10)) + 1)
    ELSE today \o <<0, 1>>

\* incrementSOASerial (zone.go:448-475)
incrementSOASerial(content, today) ==
    LET i == SerialMatch(content)
    IN IF i = 0 THEN content
       ELSE [content EXCEPT ![i].digits = NewSerial(@, TodayDigits(today))]

\* dns.ZoneParser over the whole text, line by line.  st is the place in
\* the grammar: "top", or inside the parentheses of the SOA record where the
\* serial, the four timers and the closing parenthesis are due.  acc holds
\* the records returned so far, the SOA serial once the record is complete,
\* and err once the parser has stopped on an error.
RECURSIVE ZoneParseFrom(_, _, _, _)
ZoneParseFrom(lines, origin, st, acc) ==
    IF lines = <<>> THEN (IF st = "top" THEN acc ELSE [acc EXCEPT !.err = TRUE])
    ELSE LET t == LineTok(Head(lines))
             rest == Tail(lines)
             fail == [acc EXCEPT !.err = TRUE]
         IN IF t.k \in {"blank", ";"} THEN ZoneParseFrom(rest, origin, st, acc)
            ELSE IF st = "top" THEN
                (IF t.k = "$origin"
                 THEN (IF IsDomainName(t.o) THEN ZoneParseFrom(rest, t.o, "top", acc) ELSE fail)
                 ELSE IF t.k = "$ttl" THEN ZoneParseFrom(rest, origin, "top", acc)
                 ELSE IF t.k = "soa(" /\ IsDomainName(t.o)
                      THEN ZoneParseFrom(rest, origin, "serial",
                                         [acc EXCEPT !.pname = <<"n", "s", "1", ".">> \o t.o])
                 ELSE IF t.k = "rr" /\ ParseRR(t, origin).ok
                      THEN ZoneParseFrom(rest, origin, "top",
                                         [acc EXCEPT !.rrs = Append(@, ParseRR(t, origin))])
                 ELSE fail)
            ELSE IF st = "serial" THEN
                (IF t.k = "serial" /\ FitsUint32(t.digits)
                 THEN ZoneParseFrom(rest, origin, "timer1", [acc EXCEPT !.pending = t.digits])
                 ELSE fail)
            ELSE IF st \in {"timer1", "timer2", "timer3", "timer4"} THEN
                (IF t.k = "param"
                 THEN ZoneParseFrom(rest, origin,
                                    CASE st = "timer1" -> "timer2" [] st = "timer2" -> "timer3"
                                      [] st = "timer3" -> "timer4" [] OTHER -> "close", acc)
                 ELSE fail)
            ELSE (IF t.k = ")"
                  THEN ZoneParseFrom(rest, origin, "top",
                                     [acc EXCEPT !.soa = TRUE, !.serial = acc.pending,
                                                 !.mname = acc.pname])
                  ELSE fail)

\* dns.NewZoneParser(content, origin, "") read to its end: an origin that
\* is no domain name is an error before the first record.
ZoneParse(content, origin) ==
    LET none == [rrs |-> <<>>, soa |-> FALSE, serial |-> <<>>, mname |-> <<>>,
                 pending |-> <<>>, pname |-> <<>>, err |-> FALSE]
    IN IF ~IsDomainName(origin) THEN [none EXCEPT !.err = TRUE]
       ELSE ZoneParseFrom(SplitLF(content), origin, "top", none)

\* No SOA record (a nil *SOAData).
NoSOA == [Serial |-> <<>>, MName |-> <<>>]

\* The Record parseZoneFile appends for a resource record (zone.go:301-363).
RecordOf(rr, origin) ==
    [Name |-> relativeName(rr.name, origin), Type |-> rr.type, TTL |-> rr.ttl,
     Value |-> rr.value, Priority |-> rr.prio]

\* parseZoneFile (zone.go:294-366): the records the parser returned before
\* it stopped, the apex NS records left out, and the last SOA among them.
\* parser.Err() is not read.
parseZoneFile(content, origin) ==
    LET z == ZoneParse(content, origin)
        editable(rr) == ~(rr.type = "NS" /\ relativeName(rr.name, origin) = <<"@">>)
        kept == SelectSeq(z.rrs, editable)
    IN [records |-> [i \in 1..Len(kept) |-> RecordOf(kept[i], origin)],
        soa |-> IF z.soa THEN [Serial |-> z.serial, MName |-> z.mname] ELSE NoSOA]

\* A mutant of Validate: a text without an SOA record is accepted.
ZoneValidateNoSOA(dom, content) ==
    IF TrimSpace(content) = <<>> THEN "zone file content cannot be empty"
    ELSE IF ZoneParse(content, Fqdn(dom)).err THEN "zone parse error"
    ELSE "nil"

\* Validate (zone.go:267-291)
ZoneValidate(dom, content) ==
    IF TrimSpace(content) = <<>> THEN "zone file content cannot be empty"
    ELSE LET z == ZoneParse(content, Fqdn(dom))
         IN IF z.err THEN "zone parse error"
            ELSE IF ~z.soa THEN "zone file must contain an SOA record"
            ELSE "nil"

(***************************************************************************)
(* atomicWrite as one call (the managers' operations are single steps).    *)
(* fault names the system call that fails in this call, "none" for none.   *)
(* A result is the directory after the call, the error returned and the    *)
(* system calls made.                                                      *)
(***************************************************************************)
Ret(d, err, io) == [disk |-> d, err |-> err, io |-> io]

RECURSIVE StWriteAll(_, _, _)
StWriteAll(d, f, content) ==
    IF content = <<>> THEN d ELSE StWriteAll(StWrite(d, f, Head(content)), f, Tail(content))

AtomicWrite(d, path, content, pattern, fault) ==
    LET f == TempName(d, pattern, path)
        d1 == StCreate(d, f)
        d2 == StWriteAll(d1, f, content)
        d3 == StChmod(d2, f, path)
    IN IF fault = "createtemp"
       THEN Ret(d, "failed to create temp file", <<"createtemp">>)
       ELSE IF fault = "write"
       THEN Ret(StRemove(d1, f), "write error", <<"createtemp", "write", "close", "remove">>)
       ELSE IF fault = "close"
       THEN Ret(StRemove(d2, f), "close error", <<"createtemp", "write", "close", "remove">>)
       ELSE IF fault = "rename"
       THEN Ret(StRemove(d3, f), "rename error",
                <<"createtemp", "write", "close", "stat", "chmod", "rename", "remove">>)
       ELSE Ret(StRename(d3, f, path), "nil",
                <<"createtemp", "write", "close", "stat", "chmod", "rename">>)

\* The result r with the system calls io made before it.
After(io, r) == [r EXCEPT !.io = io \o @]

Faults == {"none", "read", "createtemp", "write", "close", "rename", "remove"}

\* No call made yet.
NoRet == [op |-> "", dom |-> <<>>, err |-> "nil", io |-> <<>>, val |-> ""]
NoInc == [pc |-> "idle", in |-> <<>>, out |-> <<>>]
NoCall == [op |-> ""]

(***************************************************************************)
(* ZoneManager (zone.go:81-264).                                           *)
(***************************************************************************)
ZoneFilename(dom) == zonePrefix \o dom

ZoneExists(d, dom) == ValidateDomain(dom) = "nil" /\ Exists(d, ZoneFilename(dom))

\* The *ZoneFile Read returns for a file it could read (zone.go:116-126).
ZoneFileOf(d, dom) ==
    LET raw == d[ZoneFilename(dom)].data
        p == parseZoneFile(raw, Fqdn(dom))
    IN [Domain |-> dom, Records |-> p.records, SOA |-> p.soa, Raw |-> raw]

\* List (zone.go:86-104): the names, without the prefix, of the files of the
\* directory that begin with db.; the model returns them as a set.
ZoneList(d) ==
    {SubSeq(f, Len(zonePrefix) + 1, Len(f)) :
        f \in {x \in DOMAIN d : HasPrefix(x, zonePrefix) /\ Len(x) > Len(zonePrefix)}}

\* Read and ReadRaw: the directory is left alone.
ZoneRead(d, dom, fault) ==
    IF ValidateDomain(dom) # "nil" THEN Ret(d, ValidateDomain(dom), <<>>)
    ELSE IF fault = "read" \/ ~Exists(d, ZoneFilename(dom))
    THEN Ret(d, "failed to read zone file", <<"read">>)
    ELSE Ret(d, "nil", <<"read">>)

ZoneWrite(d, dom, content, today, fault) ==
    IF ValidateDomain(dom) # "nil" THEN Ret(d, ValidateDomain(dom), <<>>)
    ELSE AtomicWrite(d, ZoneFilename(dom),
                     incrementSOASerial(Normalize(content), today), ".zone-", fault)

ZoneCreate(d, dom, today, fault) ==
    IF ValidateDomain(dom) # "nil" THEN Ret(d, ValidateDomain(dom), <<>>)
    ELSE IF ZoneExists(d, dom) THEN Ret(d, "zone file already exists", <<"stat">>)
    ELSE After(<<"stat">>,
               AtomicWrite(d, ZoneFilename(dom), CreateContent(dom, today), ".zone-", fault))

ZoneDelete(d, dom, fault) ==
    IF ValidateDomain(dom) # "nil" THEN Ret(d, ValidateDomain(dom), <<>>)
    ELSE IF ~Exists(d, ZoneFilename(dom)) THEN Ret(d, "zone file does not exist", <<"stat">>)
    ELSE IF fault = "remove" THEN Ret(d, "remove error", <<"stat", "remove">>)
    ELSE Ret(StRemove(d, ZoneFilename(dom)), "nil", <<"stat", "remove">>)

ZoneAddRecord(d, dom, rec, today, fault) ==
    IF ValidateDomain(dom) # "nil" THEN Ret(d, ValidateDomain(dom), <<>>)
    ELSE IF fault = "read" \/ ~Exists(d, ZoneFilename(dom))
    THEN Ret(d, "read error", <<"read">>)
    ELSE LET raw == d[ZoneFilename(dom)].data
             c1 == IF HasSuffix(raw, <<LF>>) THEN raw ELSE raw \o <<LF>>
             c2 == c1 \o formatRecord(rec) \o <<LF>>
         IN After(<<"read">>,
                  AtomicWrite(d, ZoneFilename(dom), incrementSOASerial(c2, today),
                              ".zone-", fault))

\* A mutant of RemoveRecord: as HostsManager.RemoveEntry does, the lines left
\* are written back whether or not a line matched.
ZoneRemoveRecordRewrite(d, dom, name, rtype, value, today, fault) ==
    IF ValidateDomain(dom) # "nil" THEN Ret(d, ValidateDomain(dom), <<>>)
    ELSE IF fault = "read" \/ ~Exists(d, ZoneFilename(dom))
    THEN Ret(d, "read error", <<"read">>)
    ELSE LET lines == SplitLF(d[ZoneFilename(dom)].data)
             hits == {i \in 1..Len(lines) :
                         matchesRecord(lines[i], name, rtype, value, Fqdn(dom))}
             result == IF hits = {} THEN lines
                       ELSE RemoveAt(lines, CHOOSE h \in hits : \A j \in hits : h <= j)
         IN After(<<"read">>,
                  AtomicWrite(d, ZoneFilename(dom),
                              incrementSOASerial(JoinLF(result), today), ".zone-", fault))

\* A mutant of RemoveRecord: the last matching line is removed.
ZoneRemoveRecordLast(d, dom, name, rtype, value, today, fault) ==
    IF ValidateDomain(dom) # "nil" THEN Ret(d, ValidateDomain(dom), <<>>)
    ELSE IF fault = "read" \/ ~Exists(d, ZoneFilename(dom))
    THEN Ret(d, "read error", <<"read">>)
    ELSE LET lines == SplitLF(d[ZoneFilename(dom)].data)
             hits == {i \in 1..Len(lines) :
                         matchesRecord(lines[i], name, rtype, value, Fqdn(dom))}
         IN IF hits = {} THEN Ret(d, "record not found", <<"read">>)
            ELSE LET i == CHOOSE h \in hits : \A j \in hits : h >= j
                     content == JoinLF(RemoveAt(lines, i))
                 IN After(<<"read">>,
                          AtomicWrite(d, ZoneFilename(dom),
                                      incrementSOASerial(content, today), ".zone-", fault))

ZoneRemoveRecord(d, dom, name, rtype, value, today, fault) ==
    IF ValidateDomain(dom) # "nil" THEN Ret(d, ValidateDomain(dom), <<>>)
    ELSE IF fault = "read" \/ ~Exists(d, ZoneFilename(dom))
    THEN Ret(d, "read error", <<"read">>)
    ELSE LET lines == SplitLF(d[ZoneFilename(dom)].data)
             hits == {i \in 1..Len(lines) :
                         matchesRecord(lines[i], name, rtype, value, Fqdn(dom))}
         IN IF hits = {} THEN Ret(d, "record not found", <<"read">>)
            ELSE LET i == CHOOSE h \in hits : \A j \in hits : h <= j
                     content == JoinLF(RemoveAt(lines, i))
                 IN After(<<"read">>,
                          AtomicWrite(d, ZoneFilename(dom),
                                      incrementSOASerial(content, today), ".zone-", fault))

(***************************************************************************)
(* HostsManager (hosts.go).  The line tokens of a hosts file:              *)
(*   entry  "<ip>\t<hostname>"     #  a comment line     word  one field   *)
(***************************************************************************)
HEntry(ip, host) == [k |-> "entry", ip |-> ip, host |-> host]
HComment == [k |-> "#"]
HWord == [k |-> "word"]

HostsFilename(dom) == hostsPrefix \o dom

\* strings.Fields of a line: the fields of its tokens, white space between.
RECURSIVE Fields(_)
Fields(line) ==
    IF line = <<>> THEN <<>>
    ELSE LET t == Head(line)
         IN (IF IsSpace(t) THEN <<>>
             ELSE IF t.k = "entry" THEN <<t.ip, t.host>>
             ELSE <<t.k>>) \o Fields(Tail(line))

HostsWrite(d, dom, content, fault) ==
    IF ValidateDomain(dom) # "nil" THEN Ret(d, ValidateDomain(dom), <<>>)
    ELSE AtomicWrite(d, HostsFilename(dom), Normalize(content), ".hosts-", fault)

HostsExists(d, dom) == ValidateDomain(dom) = "nil" /\ Exists(d, HostsFilename(dom))

HostsRead(d, dom, fault) ==
    IF ValidateDomain(dom) # "nil" THEN Ret(d, ValidateDomain(dom), <<>>)
    ELSE IF fault = "read" \/ ~Exists(d, HostsFilename(dom))
    THEN Ret(d, "failed to read host file", <<"read">>)
    ELSE Ret(d, "nil", <<"read">>)

HostsDelete(d, dom, fault) ==
    IF ValidateDomain(dom) # "nil" THEN Ret(d, ValidateDomain(dom), <<>>)
    ELSE IF ~Exists(d, HostsFilename(dom)) THEN Ret(d, "host file does not exist", <<"stat">>)
    ELSE IF fault = "remove" THEN Ret(d, "remove error", <<"stat", "remove">>)
    ELSE Ret(StRemove(d, HostsFilename(dom)), "nil", <<"stat", "remove">>)

\* AddEntry (hosts.go:141-165): a missing file reads as the empty string.
HostsAddEntry(d, dom, ip, host, fault) ==
    IF ValidateDomain(dom) # "nil" THEN Ret(d, ValidateDomain(dom), <<>>)
    ELSE IF fault = "read" /\ Exists(d, HostsFilename(dom))
    THEN Ret(d, "read error", <<"read">>)
    ELSE LET raw == FileAt(d, HostsFilename(dom)).data
             line == <<HEntry(ip, host)>>
             content == IF raw = <<>> THEN line \o <<LF>>
                        ELSE (IF HasSuffix(raw, <<LF>>) THEN raw ELSE raw \o <<LF>>)
                             \o line \o <<LF>>
         IN After(<<"read">>, AtomicWrite(d, HostsFilename(dom), content, ".hosts-", fault))

\* The line RemoveEntry drops (hosts.go:182-194).
HostsLineMatches(line, ip, host) ==
    LET trimmed == TrimSpace(line)
    IN /\ trimmed # <<>>
       /\ Head(trimmed).k # "#"
       /\ Len(Fields(trimmed)) >= 2
       /\ Fields(trimmed)[1] = ip
       /\ Fields(trimmed)[2] = host

\* A mutant of RemoveEntry: every line that matches is dropped.
HostsRemoveEntryAll(d, dom, ip, host, fault) ==
    IF ValidateDomain(dom) # "nil" THEN Ret(d, ValidateDomain(dom), <<>>)
    ELSE IF fault = "read" \/ ~Exists(d, HostsFilename(dom))
    THEN Ret(d, "read error", <<"read">>)
    ELSE LET lines == SplitLF(d[HostsFilename(dom)].data)
             result == SelectSeq(lines, LAMBDA l : ~HostsLineMatches(l, ip, host))
         IN After(<<"read">>,
                  AtomicWrite(d, HostsFilename(dom), JoinLF(result), ".hosts-", fault))

\* RemoveEntry (hosts.go:168-198): the file is rewritten whether or not a
\* line was dropped.
HostsRemoveEntry(d, dom, ip, host, fault) ==
    IF ValidateDomain(dom) # "nil" THEN Ret(d, ValidateDomain(dom), <<>>)
    ELSE IF fault = "read" \/ ~Exists(d, HostsFilename(dom))
    THEN Ret(d, "read error", <<"read">>)
    ELSE LET lines == SplitLF(d[HostsFilename(dom)].data)
             hits == {i \in 1..Len(lines) : HostsLineMatches(lines[i], ip, host)}
             result == IF hits = {} THEN lines
                       ELSE RemoveAt(lines, CHOOSE h \in hits : \A j \in hits : h <= j)
         IN After(<<"read">>,
                  AtomicWrite(d, HostsFilename(dom), JoinLF(result), ".hosts-", fault))

(***************************************************************************)
(* GSLBManager (gslb.go).  A configuration is its health-check profiles    *)
(* and a map from record name to record; the YAML text of a configuration  *)
(* is one token.                                                           *)
(***************************************************************************)
GSLBFilename(dom) == zonePrefix \o dom \o gslbSuffix

YamlDoc(cfg) == [k |-> "yaml", cfg |-> cfg]

\* The YAML text of a configuration that also carries a comment or a key the
\* structures do not declare: yaml.Unmarshal leaves both out.
YamlCommented(cfg) == [k |-> "yaml", cfg |-> cfg, comment |-> TRUE]

\* A record name whose value is null: a nil *GSLBRecord.
NilRecord == [nil |-> TRUE]
IsNil(rec) == "nil" \in DOMAIN rec

NoRecords == [n \in {} |-> 0]
EmptyConfig == [profiles |-> {}, records |-> NoRecords]

\* yaml.Marshal(cfg)
Marshal(cfg) == <<YamlDoc(cfg), LF>>

\* yaml.Unmarshal(data, &cfg): white space alone is an empty document.
Unmarshal(data) ==
    LET t == SelectSeq(data, LAMBDA x : ~IsSpace(x))
    IN IF t = <<>> THEN [err |-> FALSE, cfg |-> EmptyConfig]
       ELSE IF Len(t) = 1 /\ t[1].k = "yaml" THEN [err |-> FALSE, cfg |-> t[1].cfg]
       ELSE [err |-> TRUE, cfg |-> EmptyConfig]

ValidModes == {"failover", "roundrobin", "random", "weighted", "geoip"}

\* A mutant of ValidateRaw: a record without backends is accepted.
ValidateRawNoBackends(content) ==
    IF TrimSpace(content) = <<>> THEN "GSLB config cannot be empty"
    ELSE LET u == Unmarshal(content)
             recs == u.cfg.records
         IN IF u.err THEN "invalid YAML"
            ELSE IF DOMAIN recs = {} THEN "GSLB config must contain at least one record"
            ELSE IF \E n \in DOMAIN recs : IsNil(recs[n]) THEN "record is nil"
            ELSE IF \E n \in DOMAIN recs : recs[n].mode \notin ValidModes THEN "invalid mode"
            ELSE IF \E n \in DOMAIN recs : \E i \in 1..Len(recs[n].backends) :
                        recs[n].backends[i].address = ""
                 THEN "backend has no address"
            ELSE "nil"

\* ValidateRaw (gslb.go:241-281).  The records are visited in the order of
\* the map, so a text with several faulty records is refused with the
\* message of any one of them; the model names the faults in a fixed order.
ValidateRaw(content) ==
    IF TrimSpace(content) = <<>> THEN "GSLB config cannot be empty"
    ELSE LET u == Unmarshal(content)
             recs == u.cfg.records
         IN IF u.err THEN "invalid YAML"
            ELSE IF DOMAIN recs = {} THEN "GSLB config must contain at least one record"
            ELSE IF \E n \in DOMAIN recs : IsNil(recs[n]) THEN "record is nil"
            ELSE IF \E n \in DOMAIN recs : recs[n].mode \notin ValidModes THEN "invalid mode"
            ELSE IF \E n \in DOMAIN recs : recs[n].backends = <<>>
                 THEN "record must have at least one backend"
            ELSE IF \E n \in DOMAIN recs : \E i \in 1..Len(recs[n].backends) :
                        recs[n].backends[i].address = ""
                 THEN "backend has no address"
            ELSE "nil"

\* Read (gslb.go:107-127): the result with the configuration read.
GSLBRead(d, dom, fault) ==
    IF ValidateDomain(dom) # "nil"
    THEN [err |-> ValidateDomain(dom), io |-> <<>>, cfg |-> EmptyConfig]
    ELSE IF fault = "read" \/ ~Exists(d, GSLBFilename(dom))
    THEN [err |-> "failed to read GSLB config", io |-> <<"read">>, cfg |-> EmptyConfig]
    ELSE LET u == Unmarshal(d[GSLBFilename(dom)].data)
         IN IF u.err THEN [err |-> "failed to parse GSLB config", io |-> <<"read">>,
                           cfg |-> EmptyConfig]
            ELSE [err |-> "nil", io |-> <<"read">>, cfg |-> u.cfg]

\* Write (gslb.go:142-153)
GSLBWrite(d, dom, cfg, fault) ==
    IF ValidateDomain(dom) # "nil" THEN Ret(d, ValidateDomain(dom), <<>>)
    ELSE AtomicWrite(d, GSLBFilename(dom), Marshal(cfg), ".zone-", fault)

\* A mutant of WriteRaw: the text is written without ValidateRaw.
GSLBWriteRawUnchecked(d, dom, content, fault) ==
    IF ValidateDomain(dom) # "nil" THEN Ret(d, ValidateDomain(dom), <<>>)
    ELSE AtomicWrite(d, GSLBFilename(dom), Normalize(content), ".zone-", fault)

\* WriteRaw (gslb.go:156-171)
GSLBWriteRaw(d, dom, content, fault) ==
    IF ValidateDomain(dom) # "nil" THEN Ret(d, ValidateDomain(dom), <<>>)
    ELSE IF ValidateRaw(content) # "nil" THEN Ret(d, ValidateRaw(content), <<>>)
    ELSE AtomicWrite(d, GSLBFilename(dom), Normalize(content), ".zone-", fault)

GSLBExists(d, dom) == ValidateDomain(dom) = "nil" /\ Exists(d, GSLBFilename(dom))

Backend(address, priority) == [address |-> address, priority |-> priority]
GSLBRecord(mode, ttl, scrape, backends) ==
    [mode |-> mode, ttl |-> ttl, scrape |-> scrape, backends |-> backends]

\* The configuration Create writes (gslb.go:183-214).
DefaultConfig(dom) ==
    [profiles |-> {"http_default"},
     records |-> [n \in {<<"a", "p", "p", ".">> \o Fqdn(dom)} |->
                     GSLBRecord("failover", 30, "10s", <<Backend("192.168.1.10", 1)>>)]]

GSLBCreate(d, dom, fault) ==
    IF ValidateDomain(dom) # "nil" THEN Ret(d, ValidateDomain(dom), <<>>)
    ELSE IF GSLBExists(d, dom) THEN Ret(d, "GSLB config already exists", <<"stat">>)
    ELSE After(<<"stat">>, GSLBWrite(d, dom, DefaultConfig(dom), fault))

GSLBDelete(d, dom, fault) ==
    IF ValidateDomain(dom) # "nil" THEN Ret(d, ValidateDomain(dom), <<>>)
    ELSE IF ~Exists(d, GSLBFilename(dom)) THEN Ret(d, "GSLB config does not exist", <<"stat">>)
    ELSE IF fault = "remove" THEN Ret(d, "remove error", <<"stat", "remove">>)
    ELSE Ret(StRemove(d, GSLBFilename(dom)), "nil", <<"stat", "remove">>)

\* The map m with key n set to v (cfg.Records[n] = v).
MapPut(m, n, v) == [x \in DOMAIN m \cup {n} |-> IF x = n THEN v ELSE m[x]]

\* A mutant of AddBackend: the configuration is read without Read's check of
\* the domain.
GSLBAddBackendUnchecked(d, dom, recordName, backend, fault) ==
    IF fault = "read" \/ ~Exists(d, GSLBFilename(dom))
    THEN Ret(d, "failed to read GSLB config", <<"read">>)
    ELSE Ret(d, "record not found", <<"read">>)

\* AddBackend (gslb.go:284-297)
GSLBAddBackend(d, dom, recordName, backend, fault) ==
    LET r == GSLBRead(d, dom, fault)
    IN IF r.err # "nil" THEN Ret(d, r.err, r.io)
       ELSE IF recordName \notin DOMAIN r.cfg.records THEN Ret(d, "record not found", r.io)
       ELSE After(r.io, GSLBWrite(d, dom,
                [r.cfg EXCEPT !.records[recordName].backends = Append(@, backend)], fault))

\* A mutant of RemoveBackend: the last backend is the one removed.
GSLBRemoveBackendLast(d, dom, recordName, index, fault) ==
    LET r == GSLBRead(d, dom, fault)
    IN IF r.err # "nil" THEN Ret(d, r.err, r.io)
       ELSE IF recordName \notin DOMAIN r.cfg.records THEN Ret(d, "record not found", r.io)
       ELSE IF index < 0 \/ index >= Len(r.cfg.records[recordName].backends)
       THEN Ret(d, "backend index out of range", r.io)
       ELSE After(r.io, GSLBWrite(d, dom,
                [r.cfg EXCEPT !.records[recordName].backends = RemoveAt(@, Len(@))], fault))

\* RemoveBackend (gslb.go:300-317); index counts from 0.
GSLBRemoveBackend(d, dom, recordName, index, fault) ==
    LET r == GSLBRead(d, dom, fault)
    IN IF r.err # "nil" THEN Ret(d, r.err, r.io)
       ELSE IF recordName \notin DOMAIN r.cfg.records THEN Ret(d, "record not found", r.io)
       ELSE IF index < 0 \/ index >= Len(r.cfg.records[recordName].backends)
       THEN Ret(d, "backend index out of range", r.io)
       ELSE After(r.io, GSLBWrite(d, dom,
                [r.cfg EXCEPT !.records[recordName].backends = RemoveAt(@, index + 1)], fault))

\* A mutant of AddRecord: a record of that name is replaced.
GSLBAddRecordOverwrite(d, dom, recordName, mode, ttl, scrape, fault) ==
    LET r == GSLBRead(d, dom, fault)
    IN IF r.err # "nil" THEN Ret(d, r.err, r.io)
       ELSE After(r.io, GSLBWrite(d, dom,
                [r.cfg EXCEPT !.records =
                     MapPut(@, recordName, GSLBRecord(mode, ttl, scrape, <<>>))], fault))

\* AddRecord (gslb.go:320-338)
GSLBAddRecord(d, dom, recordName, mode, ttl, scrape, fault) ==
    LET r == GSLBRead(d, dom, fault)
    IN IF r.err # "nil" THEN Ret(d, r.err, r.io)
       ELSE IF recordName \in DOMAIN r.cfg.records THEN Ret(d, "record already exists", r.io)
       ELSE After(r.io, GSLBWrite(d, dom,
                [r.cfg EXCEPT !.records =
                     MapPut(@, recordName, GSLBRecord(mode, ttl, scrape, <<>>))], fault))

\* RemoveRecord (gslb.go:341-353)
GSLBRemoveRecord(d, dom, recordName, fault) ==
    LET r == GSLBRead(d, dom, fault)
    IN IF r.err # "nil" THEN Ret(d, r.err, r.io)
       ELSE IF recordName \notin DOMAIN r.cfg.records THEN Ret(d, "record not found", r.io)
       ELSE After(r.io, GSLBWrite(d, dom,
                [r.cfg EXCEPT !.records =
                     [x \in DOMAIN @ \ {recordName} |-> @[x]]], fault))

\* UpdateRecord (gslb.go:356-372)
GSLBUpdateRecord(d, dom, recordName, mode, ttl, scrape, fault) ==
    LET r == GSLBRead(d, dom, fault)
    IN IF r.err # "nil" THEN Ret(d, r.err, r.io)
       ELSE IF recordName \notin DOMAIN r.cfg.records THEN Ret(d, "record not found", r.io)
       ELSE After(r.io, GSLBWrite(d, dom,
                [r.cfg EXCEPT !.records[recordName].mode = mode,
                              !.records[recordName].ttl = ttl,
                              !.records[recordName].scrape = scrape], fault))

(***************************************************************************)
(* atomicWrite, one system call per step (SpecAtomic).                     *)
(***************************************************************************)
AwIdle == [pc |-> "idle", path |-> <<>>, pattern |-> "", content |-> <<>>,
           tmp |-> <<>>, n |-> 0, err |-> "nil", failed |-> "none"]

NotRead == [data |-> <<>>, mode |-> "notread"]

AwTarget == zonePrefix \o <<"a", "a">>
AwChars == {Txt("x"), LF}
AwContents == SeqsUpTo(AwChars, MaxWriteLen)
AwModes == {"0644", "0640"}

\* The call returns err; a failed step is remembered for the claims.
AwReturn(err, step) == [aw EXCEPT !.pc = "returned", !.err = err, !.failed = step]

\* A caller enters atomicWrite(path, content).
AwBegin ==
    /\ aw.pc \in {"idle", "returned"}
    /\ \E c \in AwContents :
          aw' = [AwIdle EXCEPT !.pc = "createtemp", !.path = AwTarget,
                               !.pattern = ".zone-", !.content = c]
    /\ prevDisk' = disk
    /\ seen' = NotRead
    /\ UNCHANGED <<disk, domVars, mgrVars, hVars, callVars>>

\* tmp, err := os.CreateTemp(dir, pattern)
AwCreateTemp ==
    /\ aw.pc = "createtemp"
    /\ \/ LET f == TempName(disk, aw.pattern, aw.path) IN
            /\ disk' = StCreate(disk, f)
            /\ aw' = [aw EXCEPT !.pc = "write", !.tmp = f]
       \/ /\ aw' = AwReturn("failed to create temp file", "createtemp")
          /\ UNCHANGED disk
    /\ UNCHANGED <<prevDisk, seen, domVars, mgrVars, hVars, callVars>>

\* tmp.WriteString(content): the content reaches the file piece by piece; on
\* an error the file is closed and removed.
AwWrite ==
    /\ aw.pc = "write"
    /\ \/ /\ aw.n < Len(aw.content)
          /\ disk' = StWrite(disk, aw.tmp, aw.content[aw.n + 1])
          /\ aw' = [aw EXCEPT !.n = @ + 1]
       \/ /\ aw.n = Len(aw.content)
          /\ aw' = [aw EXCEPT !.pc = "close"]
          /\ UNCHANGED disk
       \/ /\ disk' = StRemove(disk, aw.tmp)
          /\ aw' = AwReturn("write error", "write")
    /\ UNCHANGED <<prevDisk, seen, domVars, mgrVars, hVars, callVars>>

\* tmp.Close()
AwClose ==
    /\ aw.pc = "close"
    /\ \/ /\ aw' = [aw EXCEPT !.pc = "chmod"]
          /\ UNCHANGED disk
       \/ /\ disk' = StRemove(disk, aw.tmp)
          /\ aw' = AwReturn("close error", "close")
    /\ UNCHANGED <<prevDisk, seen, domVars, mgrVars, hVars, callVars>>

\* if info, err := os.Stat(path); err == nil { os.Chmod(tmpPath, info.Mode()) }
\* The result of Chmod is dropped: it may have had no effect.
AwChmod ==
    /\ aw.pc = "chmod"
    /\ \/ disk' = StChmod(disk, aw.tmp, aw.path)
       \/ UNCHANGED disk
    /\ aw' = [aw EXCEPT !.pc = "rename"]
    /\ UNCHANGED <<prevDisk, seen, domVars, mgrVars, hVars, callVars>>

\* os.Rename(tmpPath, path)
AwRename ==
    /\ aw.pc = "rename"
    /\ \/ /\ disk' = StRename(disk, aw.tmp, aw.path)
          /\ aw' = AwReturn("nil", "none")
       \/ /\ disk' = StRemove(disk, aw.tmp)
          /\ aw' = AwReturn("rename error", "rename")
    /\ UNCHANGED <<prevDisk, seen, domVars, mgrVars, hVars, callVars>>

\* The process is killed between two system calls; a new process may call
\* atomicWrite again.
AwCrash ==
    /\ aw.pc \in {"createtemp", "write", "close", "chmod", "rename"}
    /\ Cardinality(LeftoverTemps(disk)) <= MaxCrashes
    /\ Cardinality(LeftoverTemps(prevDisk)) < MaxCrashes
    /\ aw' = [aw EXCEPT !.pc = "crashed"]
    /\ UNCHANGED <<disk, prevDisk, seen, domVars, mgrVars, hVars, callVars>>

AwRestart ==
    /\ aw.pc = "crashed"
    /\ aw' = AwIdle
    /\ seen' = NotRead
    /\ UNCHANGED <<disk, prevDisk, domVars, mgrVars, hVars, callVars>>

\* Another process opens the target and reads it to the end (os.ReadFile).
AwReader ==
    /\ aw.pc # "idle"
    /\ seen' = FileAt(disk, aw.path)
    /\ UNCHANGED <<disk, prevDisk, aw, domVars, mgrVars, hVars, callVars>>

InitAtomic ==
    /\ domain = <<>>
    /\ verr = "unchecked"
    /\ disk \in {EmptyDisk} \cup
                {[f \in {AwTarget} |-> [data |-> c, mode |-> m]] :
                     c \in AwContents, m \in AwModes}
    /\ prevDisk = disk
    /\ aw = AwIdle
    /\ seen = NotRead
    /\ call = NoCall
    /\ clock = 0
    /\ ret = NoRet
    /\ editor = <<>>
    /\ inc = NoInc
    /\ reqs = <<>>
    /\ mu = {}

NextAtomic ==
    \/ AwBegin \/ AwCreateTemp \/ AwWrite \/ AwClose \/ AwChmod \/ AwRename
    \/ AwCrash \/ AwRestart \/ AwReader

SpecAtomic == InitAtomic /\ [][NextAtomic]_vars

(***************************************************************************)
(* ValidateDomain applied to every name up to MaxDomainLen (SpecDomain).   *)
(***************************************************************************)
InitDomain ==
    /\ domain \in DomainStrings
    /\ verr = "unchecked"
    /\ disk = EmptyDisk
    /\ prevDisk = EmptyDisk
    /\ aw = AwIdle
    /\ seen = NotRead
    /\ call = NoCall
    /\ clock = 0
    /\ ret = NoRet
    /\ editor = <<>>
    /\ inc = NoInc
    /\ reqs = <<>>
    /\ mu = {}

DoValidate ==
    /\ verr = "unchecked"
    /\ verr' = ValidateDomain(domain)
    /\ UNCHANGED <<domain, disk, prevDisk, awVars, callVars, mgrVars, hVars>>

NextDomain == DoValidate

SpecDomain == InitDomain /\ [][NextDomain]_vars

(***************************************************************************)
(* The managers called one operation at a time, any system call of a call  *)
(* failing (SpecMgr).  The directory starts empty; zone, GSLB and Corefile *)
(* share it, as with the default configuration (config.go:61-67).          *)
(***************************************************************************)
MaxDay == 1
MaxFiles == 1
MaxSeq == 3
MaxRecords == 2
MaxEntries == 2
MaxBackends == 2

\* One name ValidateDomain accepts and one for each of its errors.
MgrDomains == {<<"a", "a">>, <<>>, <<"/">>, <<".", ".">>, <<"-", "a">>}

\* The text as a browser submits it: every line ending a CR LF pair.
RECURSIVE Crlf(_)
Crlf(s) ==
    IF s = <<>> THEN <<>>
    ELSE (IF Head(s) = LF THEN <<CR, LF>> ELSE <<Head(s)>>) \o Crlf(Tail(s))

ZoneContents(dom) ==
    {<<>>, <<ZJunk>>, <<ZComment, CR, CR, LF>>,
     CreateContent(dom, 0) \o <<LF>>, Crlf(CreateContent(dom, 0))}

ARecord == [Name |-> <<"w">>, TTL |-> 0, Type |-> "A", Priority |-> 0,
            Value |-> <<"1", "0", ".", "0", ".", "0", ".", "1">>]
MgrRecords == {ARecord}

\* The digits of the first serial token of a text, <<>> when it has none.
SerialOf(content) ==
    LET S == {i \in 1..Len(content) : content[i].k = "serial"}
    IN IF S = {} THEN <<>> ELSE content[CHOOSE i \in S : \A j \in S : i <= j].digits

\* The number of tokens of kind k in a text.
Count(content, k) == Cardinality({i \in 1..Len(content) : content[i].k = k})

\* The bounds of the model on a directory: no more than MaxFiles files (f
\* may be one of them), and the zone file's sequence number below MaxSeq.
Room(d, f) == f \in DOMAIN d \/ Cardinality(DOMAIN d) < MaxFiles
SeqRoom(d, f) ==
    LET serial == SerialOf(FileAt(d, f).data)
    IN Len(serial) = 10 => Atoi2(SubSeq(serial, 9, 10)) < MaxSeq

\* The inputs of a call: the domain and the system call that fails in it; a
\* call on a name that is not valid makes no system call.
MgrCalls == {c \in MgrDomains \X Faults : ValidateDomain(c[1]) = "nil" \/ c[2] = "none"}

\* The call op(dom) returns r.
Returns(op, dom, r, val) ==
    /\ disk' = r.disk
    /\ prevDisk' = disk
    /\ ret' = [op |-> op, dom |-> dom, err |-> r.err, io |-> r.io, val |-> val]

\* The caller takes the result; a call is made when the one before it has
\* returned.
MgrDone ==
    /\ ret # NoRet
    /\ ret' = NoRet
    /\ prevDisk' = disk
    /\ call' = NoCall
    /\ UNCHANGED <<disk, clock, editor, inc, domVars, awVars, hVars>>

\* Exists (zone.go:200-206, hosts.go:132-138, gslb.go:232-238): os.Stat is
\* reached only with a valid name.
ExistsResult(d, dom) ==
    IF ValidateDomain(dom) # "nil" THEN Ret(d, "nil", <<>>) ELSE Ret(d, "nil", <<"stat">>)

BoolStr(b) == IF b THEN "true" ELSE "false"

\* Midnight passes.
Tick ==
    /\ ret = NoRet
    /\ clock < MaxDay
    /\ clock' = clock + 1
    /\ UNCHANGED <<disk, prevDisk, ret, editor, inc, domVars, awVars, callVars, hVars>>

MgrZoneRead ==
    /\ ret = NoRet
    /\ \E c \in MgrCalls :
          Returns("Zone.Read", c[1], ZoneRead(disk, c[1], c[2]), "")
    /\ UNCHANGED <<clock, editor, inc, domVars, awVars, callVars, hVars>>

MgrZoneWrite ==
    /\ ret = NoRet
    /\ \E c \in MgrCalls : \E content \in ZoneContents(c[1]) :
          /\ Room(disk, ZoneFilename(c[1]))
          /\ Returns("Zone.Write", c[1], ZoneWrite(disk, c[1], content, clock, c[2]), "")
    /\ UNCHANGED <<clock, editor, inc, domVars, awVars, callVars, hVars>>

MgrZoneCreate ==
    /\ ret = NoRet
    /\ \E c \in MgrCalls :
          /\ Room(disk, ZoneFilename(c[1]))
          /\ Returns("Zone.Create", c[1], ZoneCreate(disk, c[1], clock, c[2]), "")
    /\ UNCHANGED <<clock, editor, inc, domVars, awVars, callVars, hVars>>

MgrZoneDelete ==
    /\ ret = NoRet
    /\ \E c \in MgrCalls :
          Returns("Zone.Delete", c[1], ZoneDelete(disk, c[1], c[2]), "")
    /\ UNCHANGED <<clock, editor, inc, domVars, awVars, callVars, hVars>>

MgrZoneExists ==
    /\ ret = NoRet
    /\ \E c \in MgrCalls :
          /\ c[2] = "none"
          /\ Returns("Zone.Exists", c[1], ExistsResult(disk, c[1]), BoolStr(ZoneExists(disk, c[1])))
    /\ UNCHANGED <<clock, editor, inc, domVars, awVars, callVars, hVars>>

MgrZoneAddRecord ==
    /\ ret = NoRet
    /\ \E c \in MgrCalls, rec \in MgrRecords :
          /\ Count(FileAt(disk, ZoneFilename(c[1])).data, "rr") < MaxRecords
          /\ SeqRoom(disk, ZoneFilename(c[1]))
          /\ Returns("Zone.AddRecord", c[1], ZoneAddRecord(disk, c[1], rec, clock, c[2]), "")
    /\ UNCHANGED <<clock, editor, inc, domVars, awVars, callVars, hVars>>

MgrZoneRemoveRecord ==
    /\ ret = NoRet
    /\ \E c \in MgrCalls, rec \in MgrRecords :
          /\ SeqRoom(disk, ZoneFilename(c[1]))
          /\ Returns("Zone.RemoveRecord", c[1], 
                     ZoneRemoveRecord(disk, c[1], rec.Name, rec.Type, rec.Value, clock, c[2]), "")
    /\ UNCHANGED <<clock, editor, inc, domVars, awVars, callVars, hVars>>

HostsContents ==
    {<<>>, <<HEntry("10.0.0.1", "h1"), LF, LF>>,
     <<HComment, CR, LF, HEntry("10.0.0.1", "h1")>>}
HostNames == {"h1", "h2"}

MgrHostsRead ==
    /\ ret = NoRet
    /\ \E c \in MgrCalls :
          Returns("Hosts.Read", c[1], HostsRead(disk, c[1], c[2]), "")
    /\ UNCHANGED <<clock, editor, inc, domVars, awVars, callVars, hVars>>

MgrHostsWrite ==
    /\ ret = NoRet
    /\ \E c \in MgrCalls, content \in HostsContents :
          /\ Room(disk, HostsFilename(c[1]))
          /\ Returns("Hosts.Write", c[1], HostsWrite(disk, c[1], content, c[2]), "")
    /\ UNCHANGED <<clock, editor, inc, domVars, awVars, callVars, hVars>>

MgrHostsDelete ==
    /\ ret = NoRet
    /\ \E c \in MgrCalls :
          Returns("Hosts.Delete", c[1], HostsDelete(disk, c[1], c[2]), "")
    /\ UNCHANGED <<clock, editor, inc, domVars, awVars, callVars, hVars>>

MgrHostsExists ==
    /\ ret = NoRet
    /\ \E c \in MgrCalls :
          /\ c[2] = "none"
          /\ Returns("Hosts.Exists", c[1], ExistsResult(disk, c[1]), BoolStr(HostsExists(disk, c[1])))
    /\ UNCHANGED <<clock, editor, inc, domVars, awVars, callVars, hVars>>

MgrHostsAddEntry ==
    /\ ret = NoRet
    /\ \E c \in MgrCalls, host \in HostNames :
          /\ Room(disk, HostsFilename(c[1]))
          /\ Count(FileAt(disk, HostsFilename(c[1])).data, "entry") < MaxEntries
          /\ Returns("Hosts.AddEntry", c[1], HostsAddEntry(disk, c[1], "10.0.0.1", host, c[2]), "")
    /\ UNCHANGED <<clock, editor, inc, domVars, awVars, callVars, hVars>>

MgrHostsRemoveEntry ==
    /\ ret = NoRet
    /\ \E c \in MgrCalls, host \in HostNames :
          Returns("Hosts.RemoveEntry", c[1], HostsRemoveEntry(disk, c[1], "10.0.0.1", host, c[2]), "")
    /\ UNCHANGED <<clock, editor, inc, domVars, awVars, callVars, hVars>>

RecordNames(dom) == {<<"a", "p", "p", ".">> \o Fqdn(dom), <<"r">>}
NewBackends == {Backend("10.0.0.2", 2)}

\* Texts handed to WriteRaw: nothing, no YAML, a record with an unknown
\* mode, and the default configuration with CR LF line ends and with a
\* blank line after it.
GSLBContents(dom) ==
    {<<>>, <<ZJunk, LF>>,
     Marshal([DefaultConfig(dom) EXCEPT
                 !.records = MapPut(@, <<"r">>, GSLBRecord("bogus", 30, "10s", <<>>))]),
     Crlf(Marshal(DefaultConfig(dom))),
     Marshal(DefaultConfig(dom)) \o <<LF>>}

MgrGSLBRead ==
    /\ ret = NoRet
    /\ \E c \in MgrCalls :
          Returns("GSLB.Read", c[1], Ret(disk, GSLBRead(disk, c[1], c[2]).err, GSLBRead(disk, c[1], c[2]).io), "")
    /\ UNCHANGED <<clock, editor, inc, domVars, awVars, callVars, hVars>>

MgrGSLBWrite ==
    /\ ret = NoRet
    /\ \E c \in MgrCalls : \E cfg \in {DefaultConfig(c[1]), EmptyConfig} :
          /\ Room(disk, GSLBFilename(c[1]))
          /\ Returns("GSLB.Write", c[1], GSLBWrite(disk, c[1], cfg, c[2]), "")
    /\ UNCHANGED <<clock, editor, inc, domVars, awVars, callVars, hVars>>

MgrGSLBWriteRaw ==
    /\ ret = NoRet
    /\ \E c \in MgrCalls : \E content \in GSLBContents(c[1]) :
          /\ Room(disk, GSLBFilename(c[1]))
          /\ Returns("GSLB.WriteRaw", c[1], GSLBWriteRaw(disk, c[1], content, c[2]), "")
    /\ UNCHANGED <<clock, editor, inc, domVars, awVars, callVars, hVars>>

MgrGSLBCreate ==
    /\ ret = NoRet
    /\ \E c \in MgrCalls :
          /\ Room(disk, GSLBFilename(c[1]))
          /\ Returns("GSLB.Create", c[1], GSLBCreate(disk, c[1], c[2]), "")
    /\ UNCHANGED <<clock, editor, inc, domVars, awVars, callVars, hVars>>

MgrGSLBDelete ==
    /\ ret = NoRet
    /\ \E c \in MgrCalls :
          Returns("GSLB.Delete", c[1], GSLBDelete(disk, c[1], c[2]), "")
    /\ UNCHANGED <<clock, editor, inc, domVars, awVars, callVars, hVars>>

MgrGSLBExists ==
    /\ ret = NoRet
    /\ \E c \in MgrCalls :
          /\ c[2] = "none"
          /\ Returns("GSLB.Exists", c[1], ExistsResult(disk, c[1]), BoolStr(GSLBExists(disk, c[1])))
    /\ UNCHANGED <<clock, editor, inc, domVars, awVars, callVars, hVars>>

\* The bound of the model on a record's backends.
BackendRoom(d, dom, n) ==
    LET recs == GSLBRead(d, dom, "none").cfg.records
    IN n \in DOMAIN recs => Len(recs[n].backends) < MaxBackends

MgrGSLBAddBackend ==
    /\ ret = NoRet
    /\ \E c \in MgrCalls : \E b \in NewBackends, n \in RecordNames(c[1]) :
          /\ BackendRoom(disk, c[1], n)
          /\ Returns("GSLB.AddBackend", c[1], GSLBAddBackend(disk, c[1], n, b, c[2]), "")
    /\ UNCHANGED <<clock, editor, inc, domVars, awVars, callVars, hVars>>

MgrGSLBRemoveBackend ==
    /\ ret = NoRet
    /\ \E c \in MgrCalls : \E index \in -1..MaxBackends, n \in RecordNames(c[1]) :
          Returns("GSLB.RemoveBackend", c[1], 
                     GSLBRemoveBackend(disk, c[1], n, index, c[2]), "")
    /\ UNCHANGED <<clock, editor, inc, domVars, awVars, callVars, hVars>>

MgrGSLBAddRecord ==
    /\ ret = NoRet
    /\ \E c \in MgrCalls : \E n \in RecordNames(c[1]) :
          Returns("GSLB.AddRecord", c[1], 
                     GSLBAddRecord(disk, c[1], n, "roundrobin", 60, "10s", c[2]), "")
    /\ UNCHANGED <<clock, editor, inc, domVars, awVars, callVars, hVars>>

MgrGSLBRemoveRecord ==
    /\ ret = NoRet
    /\ \E c \in MgrCalls : \E n \in RecordNames(c[1]) :
          Returns("GSLB.RemoveRecord", c[1], GSLBRemoveRecord(disk, c[1], n, c[2]), "")
    /\ UNCHANGED <<clock, editor, inc, domVars, awVars, callVars, hVars>>

MgrGSLBUpdateRecord ==
    /\ ret = NoRet
    /\ \E c \in MgrCalls : \E n \in RecordNames(c[1]) :
          Returns("GSLB.UpdateRecord", c[1], 
                     GSLBUpdateRecord(disk, c[1], n, "weighted", 30, "10s", c[2]), "")
    /\ UNCHANGED <<clock, editor, inc, domVars, awVars, callVars, hVars>>

\* CorefileManager: the one file of the manager, and Write.
CorefilePath == <<"C", "o", "r", "e", "f", "i", "l", "e">>
CorefileContents == {<<>>, <<Txt("x")>>, <<Txt("x"), CR, LF, Txt("y"), LF, LF>>}

CorefileWrite(d, content, fault) ==
    AtomicWrite(d, CorefilePath, Normalize(content), ".corefile-", fault)

MgrCorefileWrite ==
    /\ ret = NoRet
    /\ \E fault \in Faults \ {"read", "remove"}, content \in CorefileContents :
          /\ Room(disk, CorefilePath)
          /\ Returns("Corefile.Write", <<>>, CorefileWrite(disk, content, fault), "")
    /\ UNCHANGED <<clock, editor, inc, domVars, awVars, callVars, hVars>>

InitMgr ==
    /\ disk = EmptyDisk
    /\ prevDisk = EmptyDisk
    /\ clock = 0
    /\ ret = NoRet
    /\ editor = <<>>
    /\ inc = NoInc
    /\ domain = <<>>
    /\ verr = "unchecked"
    /\ aw = AwIdle
    /\ seen = NotRead
    /\ call = NoCall
    /\ reqs = <<>>
    /\ mu = {}

NextMgr ==
    \/ Tick \/ MgrDone
    \/ MgrZoneRead \/ MgrZoneWrite \/ MgrZoneCreate \/ MgrZoneDelete \/ MgrZoneExists
    \/ MgrZoneAddRecord \/ MgrZoneRemoveRecord
    \/ MgrHostsRead \/ MgrHostsWrite \/ MgrHostsDelete \/ MgrHostsExists
    \/ MgrHostsAddEntry \/ MgrHostsRemoveEntry
    \/ MgrGSLBRead \/ MgrGSLBWrite \/ MgrGSLBWriteRaw \/ MgrGSLBCreate \/ MgrGSLBDelete
    \/ MgrGSLBExists \/ MgrGSLBAddBackend \/ MgrGSLBRemoveBackend \/ MgrGSLBAddRecord
    \/ MgrGSLBRemoveRecord \/ MgrGSLBUpdateRecord
    \/ MgrCorefileWrite

SpecMgr == InitMgr /\ [][NextMgr]_vars

(***************************************************************************)
(* incrementSOASerial applied to texts whose SOA serial is a token of ten  *)
(* digits (SpecIncrement): a date of the model's calendar, an earlier date *)
(* or a number that is no date, and every sequence number 00..99; with and *)
(* without the "; serial" comment.                                         *)
(***************************************************************************)
SerialDates == {TodayDigits(0), TodayDigits(1), <<2, 0, 2, 3, 1, 2, 3, 1>>,
                <<0, 0, 0, 0, 0, 0, 0, 0>>}

SoaContent(digits, cm) ==
    <<ZOrigin(<<"a", "a", ".">>), LF, ZSoaOpen(<<"a", "a", ".">>), LF, ZSerial(digits, cm), LF,
      ZParam("refresh"), LF, ZParam("retry"), LF, ZParam("expire"), LF,
      ZParam("minimum"), LF, ZClose, LF>>

InitIncrement ==
    /\ clock \in 0..MaxDay
    /\ inc \in {[pc |-> "idle", in |-> SoaContent(date \o <<n1, n2>>, cm), out |-> <<>>] :
                   date \in SerialDates, n1 \in Digits, n2 \in Digits, cm \in BOOLEAN}
    /\ disk = EmptyDisk
    /\ prevDisk = EmptyDisk
    /\ ret = NoRet
    /\ editor = <<>>
    /\ domain = <<>>
    /\ verr = "unchecked"
    /\ aw = AwIdle
    /\ seen = NotRead
    /\ call = NoCall
    /\ reqs = <<>>
    /\ mu = {}

DoIncrement ==
    /\ inc.pc = "idle"
    /\ inc' = [inc EXCEPT !.pc = "done", !.out = incrementSOASerial(inc.in, clock)]
    /\ UNCHANGED <<disk, prevDisk, clock, ret, editor, domVars, awVars, callVars, hVars>>

NextIncrement == DoIncrement

SpecIncrement == InitIncrement /\ [][NextIncrement]_vars

(***************************************************************************)
(* One zone from its creation on (SpecSerial): records added and removed,  *)
(* the editor page opened (ReadRaw) and saved (Write) at any later time,   *)
(* midnight passing.  No system call fails.                                *)
(***************************************************************************)
SerDomain == <<"a", "a">>

SerCreate ==
    /\ ret = NoRet
    /\ Returns("Zone.Create", SerDomain, ZoneCreate(disk, SerDomain, clock, "none"), "")
    /\ UNCHANGED <<clock, editor, inc, domVars, awVars, callVars, hVars>>

\* The editor page is opened: it holds what ReadRaw returns.  The model
\* opens it while the sequence number is below MaxSeq.
SerOpenEditor ==
    /\ ret = NoRet
    /\ ZoneExists(disk, SerDomain)
    /\ SeqRoom(disk, ZoneFilename(SerDomain))
    /\ editor' = disk[ZoneFilename(SerDomain)].data
    /\ UNCHANGED <<disk, prevDisk, clock, ret, inc, domVars, awVars, callVars, hVars>>

\* The editor page is saved: Write with the text the page holds.
SerSave ==
    /\ ret = NoRet
    /\ editor # <<>>
    /\ Returns("Zone.Write", SerDomain, ZoneWrite(disk, SerDomain, editor, clock, "none"), "")
    /\ UNCHANGED <<clock, editor, inc, domVars, awVars, callVars, hVars>>

SerAddRecord ==
    /\ ret = NoRet
    /\ Count(FileAt(disk, ZoneFilename(SerDomain)).data, "rr") < MaxRecords
    /\ Returns("Zone.AddRecord", SerDomain,
               ZoneAddRecord(disk, SerDomain, ARecord, clock, "none"), "")
    /\ UNCHANGED <<clock, editor, inc, domVars, awVars, callVars, hVars>>

SerRemoveRecord ==
    /\ ret = NoRet
    /\ Returns("Zone.RemoveRecord", SerDomain,
               ZoneRemoveRecord(disk, SerDomain, ARecord.Name, ARecord.Type, ARecord.Value,
                                clock, "none"), "")
    /\ UNCHANGED <<clock, editor, inc, domVars, awVars, callVars, hVars>>

InitSerial == InitMgr

NextSerial ==
    \/ Tick \/ MgrDone
    \/ SerCreate \/ SerOpenEditor \/ SerSave \/ SerAddRecord \/ SerRemoveRecord

SpecSerial == InitSerial /\ [][NextSerial]_vars

(***************************************************************************)
(* The handlers that create artifacts, one goroutine per request           *)
(* (SpecHandlers): Handler.GSLBCreate and Handler.ZonesSave, serialised by *)
(* Handler.mu.  Under the lock a call of Create is two steps, the check    *)
(* that the file exists and the atomic write, as in the code.              *)
(***************************************************************************)
NumRequests == 2
Goroutines == 1..NumRequests

YmlDomain == <<"a", "a", ".", "y", "m", "l">>

\* The requests of the model: the handler and the form values; and the
\* system calls that may fail while a request is served.
HForms ==
    {[h |-> "GSLBCreate", isNew |-> TRUE, dom |-> d, content |-> <<>>, reload |-> FALSE] :
         d \in {<<"a", "a">>, <<".", ".">>}}
    \cup {[h |-> "ZonesSave", isNew |-> TRUE, dom |-> d, content |-> <<>>, reload |-> FALSE] :
              d \in {<<"a", "a">>, YmlDomain}}
    \cup {[h |-> "ZonesSave", isNew |-> n, dom |-> <<"a", "a">>, content |-> c, reload |-> TRUE] :
              n \in BOOLEAN,
              c \in {<<>>, <<ZJunk>>, formatRecord(ARecord) \o <<LF>>,
                     Crlf(CreateContent(<<"a", "a">>, 0))}}
HFaults == {"none", "rename"}

IdleReq == [pc |-> "idle"]

\* The file a request is about, and whether it is served by Create.
HTarget(r) == IF r.h = "GSLBCreate" THEN GSLBFilename(r.dom) ELSE ZoneFilename(r.dom)
IsCreate(r) == r.h = "GSLBCreate" \/ (r.isNew /\ r.content = <<>>)

\* The text the request writes (gslb.go:183-216, zone.go:147-153, 167-184).
HContent(r, today) ==
    IF r.h = "GSLBCreate" THEN Marshal(DefaultConfig(r.dom))
    ELSE IF IsCreate(r) THEN CreateContent(r.dom, today)
    ELSE incrementSOASerial(Normalize(r.content), today)

\* A mutant of the lock: Lock returns while another goroutine holds it.
CanLockAlways(m) == TRUE

\* sync.RWMutex.Lock returns when no goroutine holds the lock.
CanLock(m) == m = {}

\* The request is answered: the flash message of the redirect.
Answer(r, err, flash) ==
    [r EXCEPT !.pc = "done", !.err = err, !.flash = flash, !.old = NoFile]

\* A request arrives; the handler reads the form and checks the domain
\* before it takes the lock (handlers/gslb.go:76-80, 552-565).
HReceive(g) ==
    /\ reqs[g].pc \in {"idle", "done"}
    /\ \E f \in HForms :
          LET r == [pc |-> "lock", h |-> f.h, isNew |-> f.isNew, dom |-> f.dom,
                    content |-> f.content, reload |-> f.reload, fault |-> "none",
                    fresh |-> ~Exists(disk, HTarget(f)), old |-> NoFile,
                    err |-> "nil", flash |-> ""]
          IN reqs' = [reqs EXCEPT ![g] =
                         IF ValidateDomain(f.dom) # "nil"
                         THEN Answer(r, "Invalid domain", "error")
                         ELSE r]
    /\ UNCHANGED <<disk, prevDisk, mu, mgrVars, domVars, awVars, callVars>>

\* h.mu.Lock()
HLock(g) ==
    /\ reqs[g].pc = "lock"
    /\ CanLock(mu)
    /\ mu' = mu \cup {g}
    /\ reqs' = [reqs EXCEPT ![g].pc = "check", ![g].old = FileAt(disk, HTarget(reqs[g]))]
    /\ UNCHANGED <<disk, prevDisk, mgrVars, domVars, awVars, callVars>>

\* Under the lock, up to the write: Create checks that the file does not
\* exist (zone.go:159-165, gslb.go:175-181); ZonesSave refuses an empty text
\* and one that Validate rejects (handlers/gslb.go:573-583).
HCheck(g) ==
    /\ reqs[g].pc = "check"
    /\ LET r == reqs[g]
           err == IF IsCreate(r)
                  THEN (IF Exists(disk, HTarget(r)) THEN "already exists" ELSE "nil")
                  ELSE IF r.content = <<>> THEN "Content cannot be empty"
                  ELSE IF ZoneValidate(r.dom, r.content) # "nil" THEN "Validation failed"
                  ELSE "nil"
       IN reqs' = [reqs EXCEPT ![g].pc = IF err = "nil" THEN "write" ELSE "unlock",
                               ![g].err = err]
    /\ UNCHANGED <<disk, prevDisk, mu, mgrVars, domVars, awVars, callVars>>

\* Under the lock: atomicWrite of the text.
HWrite(g) ==
    /\ reqs[g].pc = "write"
    /\ \E fault \in HFaults :
          LET r == reqs[g]
              w == AtomicWrite(disk, HTarget(r), HContent(r, clock), ".zone-", fault)
          IN /\ disk' = w.disk
             /\ reqs' = [reqs EXCEPT ![g].pc = "unlock", ![g].err = w.err,
                                     ![g].fault = fault]
    /\ prevDisk' = disk
    /\ UNCHANGED <<mu, mgrVars, domVars, awVars, callVars>>

\* h.mu.Unlock() and the answer; after a save with reload=true the handler
\* calls Docker.ReloadCoreDNS, which may fail (handlers/gslb.go:585-602).
HUnlock(g) ==
    /\ reqs[g].pc = "unlock"
    /\ mu' = mu \ {g}
    /\ \E reloaded \in BOOLEAN :
          reqs' = [reqs EXCEPT ![g] =
                      Answer(@, @.err,
                             IF @.err # "nil" THEN "error"
                             ELSE IF @.reload /\ ~reloaded THEN "warning"
                             ELSE "success")]
    /\ UNCHANGED <<disk, prevDisk, mgrVars, domVars, awVars, callVars>>

InitHandlers ==
    /\ disk = EmptyDisk
    /\ prevDisk = EmptyDisk
    /\ reqs = [g \in Goroutines |-> IdleReq]
    /\ mu = {}
    /\ clock = 0
    /\ ret = NoRet
    /\ editor = <<>>
    /\ inc = NoInc
    /\ domain = <<>>
    /\ verr = "unchecked"
    /\ aw = AwIdle
    /\ seen = NotRead
    /\ call = NoCall

NextHandlers ==
    \E g \in Goroutines : HReceive(g) \/ HLock(g) \/ HCheck(g) \/ HWrite(g) \/ HUnlock(g)

SpecHandlers == InitHandlers /\ [][NextHandlers]_vars

(***************************************************************************)
(* ZoneManager called one operation at a time with records of every kind   *)
(* the handler lets through (SpecZone): the handler checks only that name, *)
(* type and value are not empty (handlers/gslb.go:443-492).  call holds    *)
(* the arguments of the call and, for Read, the *ZoneFile returned.        *)
(***************************************************************************)
MaxZoneOps == 3

\* A valid domain whose only label has 64 characters.
LongDomain == [i \in 1..(MaxLabel + 1) |-> "a"]
ZoneDomains == {<<"a", "a">>, LongDomain}

Rec(name, type, value, prio) ==
    [Name |-> name, TTL |-> 0, Type |-> type, Priority |-> prio, Value |-> value]

\* The records added: an A record, the same with its name fully qualified,
\* a CNAME and an MX with a relative and an absolute target, and an A
\* record whose value is no address.
ZoneRecords(dom) ==
    {ARecord,
     Rec(<<"w", ".">> \o Fqdn(dom), "A", ARecord.Value, 0),
     Rec(<<"p">>, "CNAME", <<"w">>, 0),
     Rec(<<"@">>, "MX", <<"w", ".">> \o Fqdn(dom), 1),
     Rec(<<"w">>, "A", <<"n", "s">>, 0)}

\* The (name, type, value) triples removed; the last is the NS record of
\* the apex in the zone Create writes for the domain aa.
ZoneRemovals ==
    {<<ARecord.Name, "A", ARecord.Value>>,
     <<<<"p">>, "CNAME", <<"w">>>>,
     <<<<"p">>, "A", ARecord.Value>>,
     <<<<"@">>, "NS", <<"n", "s", "1", ".", "a", "a", ".">>>>}

\* Texts written with Write: a grammar error alone, a grammar error after
\* the default zone, and a record without an SOA record.
ZoneTexts(dom) ==
    {<<ZJunk, LF>>,
     CreateContent(dom, 0) \o <<ZJunk, LF>>,
     formatRecord(ARecord) \o <<LF>>}

\* The bound of the model on a zone file: its sequence number and its
\* record lines.
ZoneRoom(d, dom) ==
    LET data == FileAt(d, ZoneFilename(dom)).data
        serial == SerialOf(data)
    IN /\ Len(serial) = 10 => Atoi2(SubSeq(serial, 9, 10)) <= MaxZoneOps
       /\ Count(data, "rr") <= MaxZoneOps

ZCreate ==
    /\ ret = NoRet
    /\ \E dom \in ZoneDomains :
          /\ Room(disk, ZoneFilename(dom))
          /\ Returns("Zone.Create", dom, ZoneCreate(disk, dom, clock, "none"), "")
          /\ call' = [op |-> "Zone.Create", dom |-> dom]
    /\ UNCHANGED <<clock, editor, inc, domVars, awVars, hVars>>

ZWrite ==
    /\ ret = NoRet
    /\ \E dom \in ZoneDomains : \E content \in ZoneTexts(dom) :
          /\ Room(disk, ZoneFilename(dom))
          /\ Returns("Zone.Write", dom, ZoneWrite(disk, dom, content, clock, "none"), "")
          /\ call' = [op |-> "Zone.Write", dom |-> dom, content |-> content]
    /\ UNCHANGED <<clock, editor, inc, domVars, awVars, hVars>>

ZAddRecord ==
    /\ ret = NoRet
    /\ \E dom \in ZoneDomains : \E rec \in ZoneRecords(dom) :
          /\ ZoneRoom(disk, dom)
          /\ Returns("Zone.AddRecord", dom, ZoneAddRecord(disk, dom, rec, clock, "none"), "")
          /\ call' = [op |-> "Zone.AddRecord", dom |-> dom, rec |-> rec]
    /\ UNCHANGED <<clock, editor, inc, domVars, awVars, hVars>>

ZRemoveRecord ==
    /\ ret = NoRet
    /\ \E dom \in ZoneDomains : \E r \in ZoneRemovals :
          /\ ZoneRoom(disk, dom)
          /\ Returns("Zone.RemoveRecord", dom,
                     ZoneRemoveRecord(disk, dom, r[1], r[2], r[3], clock, "none"), "")
          /\ call' = [op |-> "Zone.RemoveRecord", dom |-> dom,
                      name |-> r[1], type |-> r[2], value |-> r[3]]
    /\ UNCHANGED <<clock, editor, inc, domVars, awVars, hVars>>

\* Read of a file that exists: the *ZoneFile is kept with the call.
ZRead ==
    /\ ret = NoRet
    /\ \E dom \in ZoneDomains :
          /\ ZoneExists(disk, dom)
          /\ Returns("Zone.Read", dom, ZoneRead(disk, dom, "none"), "")
          /\ call' = [op |-> "Zone.Read", dom |-> dom, zf |-> ZoneFileOf(disk, dom)]
    /\ UNCHANGED <<clock, editor, inc, domVars, awVars, hVars>>

InitZone == InitMgr

NextZone == MgrDone \/ ZCreate \/ ZWrite \/ ZAddRecord \/ ZRemoveRecord \/ ZRead

SpecZone == InitZone /\ [][NextZone]_vars

(***************************************************************************)
(* SpecValidate: ValidateRaw applied to a text of the GSLB editor.         *)
(***************************************************************************)
RawNames == {<<"r">>, <<"s">>}
RawModes == {"failover", "geoip", "bogus", ""}
RawBackends == {Backend("10.0.0.1", 1), Backend("", 1)}

\* The values a record name can have in the YAML text.
RawRecords ==
    {NilRecord} \cup
    {GSLBRecord(m, 30, "10s", bs) : m \in RawModes, bs \in SeqsUpTo(RawBackends, MaxBackends)}

RawConfigs ==
    UNION {{[profiles |-> {}, records |-> recs] : recs \in [names -> RawRecords]} :
              names \in SUBSET RawNames}

\* White space, text that is no YAML, and the YAML text of every
\* configuration, as yaml.Marshal writes it and as a browser submits it.
RawContents ==
    {<<>>, <<LF>>, <<CR, LF, LF>>, <<ZJunk, LF>>}
    \cup {Marshal(cfg) : cfg \in RawConfigs}
    \cup {<<CR, LF, YamlCommented(cfg), CR, LF>> : cfg \in RawConfigs}

InitValidate ==
    /\ disk = EmptyDisk
    /\ prevDisk = EmptyDisk
    /\ clock = 0
    /\ ret = NoRet
    /\ editor = <<>>
    /\ inc = NoInc
    /\ domain = <<>>
    /\ verr = "unchecked"
    /\ aw = AwIdle
    /\ seen = NotRead
    /\ call \in {[op |-> "GSLB.ValidateRaw", content |-> c, err |-> "pending"] :
                    c \in RawContents}
    /\ reqs = <<>>
    /\ mu = {}

DoValidateRaw ==
    /\ call.op = "GSLB.ValidateRaw"
    /\ call.err = "pending"
    /\ call' = [call EXCEPT !.err = ValidateRaw(call.content)]
    /\ UNCHANGED <<disk, prevDisk, mgrVars, domVars, awVars, hVars>>

NextValidate == DoValidateRaw

SpecValidate == InitValidate /\ [][NextValidate]_vars

(***************************************************************************)
(* SpecGSLB: the operations of GSLBManager on the configuration of one     *)
(* domain, each with its arguments recorded; no system call fails.         *)
(***************************************************************************)
GDomain == <<"a", "a">>
GNames == {<<"a", "p", "p", ".">> \o Fqdn(GDomain), <<"r">>}

\* mode, record_ttl and scrape_interval as the forms submit them: the
\* handlers require a name and a mode, and check neither.
GSettings == {<<"failover", 30, "10s">>, <<"bogus", 30, "10s">>}
GBackends == {Backend("10.0.0.2", 2), Backend("", 0)}

\* Texts handed to WriteRaw: white space, text that is no YAML, a record
\* without backends, and a configuration of two records with comments in it.
GTexts ==
    {<<LF>>, <<ZJunk, LF>>,
     Marshal([profiles |-> {}, records |-> [n \in {<<"r">>} |->
                 GSLBRecord("failover", 30, "10s", <<>>)]]),
     <<YamlCommented([profiles |-> {}, records |-> [n \in GNames |->
                 GSLBRecord("geoip", 30, "10s",
                            <<Backend("10.0.0.1", 1), Backend("10.0.0.2", 2)>>)]]), CR, LF>>}

GCreate ==
    /\ ret = NoRet
    /\ Returns("GSLB.Create", GDomain, GSLBCreate(disk, GDomain, "none"), "")
    /\ call' = [op |-> "GSLB.Create", dom |-> GDomain]
    /\ UNCHANGED <<clock, editor, inc, domVars, awVars, hVars>>

GWriteRaw ==
    /\ ret = NoRet
    /\ \E content \in GTexts :
          /\ Returns("GSLB.WriteRaw", GDomain, GSLBWriteRaw(disk, GDomain, content, "none"), "")
          /\ call' = [op |-> "GSLB.WriteRaw", dom |-> GDomain, content |-> content]
    /\ UNCHANGED <<clock, editor, inc, domVars, awVars, hVars>>

GAddRecord ==
    /\ ret = NoRet
    /\ \E n \in GNames, s \in GSettings :
          /\ Returns("GSLB.AddRecord", GDomain,
                     GSLBAddRecord(disk, GDomain, n, s[1], s[2], s[3], "none"), "")
          /\ call' = [op |-> "GSLB.AddRecord", dom |-> GDomain, name |-> n,
                      mode |-> s[1], ttl |-> s[2], scrape |-> s[3]]
    /\ UNCHANGED <<clock, editor, inc, domVars, awVars, hVars>>

GRemoveRecord ==
    /\ ret = NoRet
    /\ \E n \in GNames :
          /\ Returns("GSLB.RemoveRecord", GDomain,
                     GSLBRemoveRecord(disk, GDomain, n, "none"), "")
          /\ call' = [op |-> "GSLB.RemoveRecord", dom |-> GDomain, name |-> n]
    /\ UNCHANGED <<clock, editor, inc, domVars, awVars, hVars>>

GUpdateRecord ==
    /\ ret = NoRet
    /\ \E n \in GNames, s \in GSettings :
          /\ Returns("GSLB.UpdateRecord", GDomain,
                     GSLBUpdateRecord(disk, GDomain, n, s[1], s[2], s[3], "none"), "")
          /\ call' = [op |-> "GSLB.UpdateRecord", dom |-> GDomain, name |-> n,
                      mode |-> s[1], ttl |-> s[2], scrape |-> s[3]]
    /\ UNCHANGED <<clock, editor, inc, domVars, awVars, hVars>>

GAddBackend ==
    /\ ret = NoRet
    /\ \E n \in GNames, b \in GBackends :
          /\ BackendRoom(disk, GDomain, n)
          /\ Returns("GSLB.AddBackend", GDomain,
                     GSLBAddBackend(disk, GDomain, n, b, "none"), "")
          /\ call' = [op |-> "GSLB.AddBackend", dom |-> GDomain, name |-> n, backend |-> b]
    /\ UNCHANGED <<clock, editor, inc, domVars, awVars, hVars>>

GRemoveBackend ==
    /\ ret = NoRet
    /\ \E n \in GNames, index \in -1..MaxBackends :
          /\ Returns("GSLB.RemoveBackend", GDomain,
                     GSLBRemoveBackend(disk, GDomain, n, index, "none"), "")
          /\ call' = [op |-> "GSLB.RemoveBackend", dom |-> GDomain, name |-> n,
                      index |-> index]
    /\ UNCHANGED <<clock, editor, inc, domVars, awVars, hVars>>

InitGSLB == InitMgr

NextGSLB ==
    \/ MgrDone
    \/ GCreate
    \/ GWriteRaw
    \/ GAddRecord
    \/ GRemoveRecord
    \/ GUpdateRecord
    \/ GAddBackend
    \/ GRemoveBackend

SpecGSLB == InitGSLB /\ [][NextGSLB]_vars

(***************************************************************************)
(* SpecHosts: the operations of HostsManager on the hosts file of one      *)
(* domain, each with its arguments recorded; no system call fails.         *)
(***************************************************************************)
MaxHostEntries == 4

HsDomain == <<"a", "a">>
HsIPs == {"10.0.0.1", "10.0.0.2"}

\* Texts handed to Write.  The first: a commented-out entry, an indented
\* entry with an alias, a blank line and the same entry again; the second
\* has no entry.
HostsTexts ==
    {<<HComment, HEntry("10.0.0.1", "h1"), LF,
       CR, HEntry("10.0.0.1", "h1"), HWord, LF,
       LF,
       HEntry("10.0.0.1", "h1"), LF>>,
     <<HWord, LF, HComment>>}

HsWrite ==
    /\ ret = NoRet
    /\ \E content \in HostsTexts :
          /\ Returns("Hosts.Write", HsDomain, HostsWrite(disk, HsDomain, content, "none"), "")
          /\ call' = [op |-> "Hosts.Write", dom |-> HsDomain, content |-> content]
    /\ UNCHANGED <<clock, editor, inc, domVars, awVars, hVars>>

HsAddEntry ==
    /\ ret = NoRet
    /\ Count(FileAt(disk, HostsFilename(HsDomain)).data, "entry") < MaxHostEntries
    /\ \E ip \in HsIPs, host \in HostNames :
          /\ Returns("Hosts.AddEntry", HsDomain,
                     HostsAddEntry(disk, HsDomain, ip, host, "none"), "")
          /\ call' = [op |-> "Hosts.AddEntry", dom |-> HsDomain, ip |-> ip, host |-> host]
    /\ UNCHANGED <<clock, editor, inc, domVars, awVars, hVars>>

HsRemoveEntry ==
    /\ ret = NoRet
    /\ \E ip \in HsIPs, host \in HostNames :
          /\ Returns("Hosts.RemoveEntry", HsDomain,
                     HostsRemoveEntry(disk, HsDomain, ip, host, "none"), "")
          /\ call' = [op |-> "Hosts.RemoveEntry", dom |-> HsDomain, ip |-> ip, host |-> host]
    /\ UNCHANGED <<clock, editor, inc, domVars, awVars, hVars>>

InitHosts == InitMgr

NextHosts == MgrDone \/ HsWrite \/ HsAddEntry \/ HsRemoveEntry

SpecHosts == InitHosts /\ [][NextHosts]_vars

(***************************************************************************)
(* SpecShared: ZoneManager and GSLBManager on one directory, the default   *)
(* (config.go:61-64: GSLB_DIR unset is the zone directory).                *)
(***************************************************************************)
ShDomains == {<<"a", "a">>, YmlDomain}

\* Texts written with ZoneManager.Write: the default zone and a record.
ShTexts(dom) == {CreateContent(dom, 0), formatRecord(ARecord) \o <<LF>>}

ShGSLBCreate ==
    /\ ret = NoRet
    /\ \E dom \in ShDomains :
          /\ Returns("GSLB.Create", dom, GSLBCreate(disk, dom, "none"), "")
          /\ call' = [op |-> "GSLB.Create", dom |-> dom]
    /\ UNCHANGED <<clock, editor, inc, domVars, awVars, hVars>>

ShGSLBDelete ==
    /\ ret = NoRet
    /\ \E dom \in ShDomains :
          /\ Returns("GSLB.Delete", dom, GSLBDelete(disk, dom, "none"), "")
          /\ call' = [op |-> "GSLB.Delete", dom |-> dom]
    /\ UNCHANGED <<clock, editor, inc, domVars, awVars, hVars>>

ShZoneCreate ==
    /\ ret = NoRet
    /\ \E dom \in ShDomains :
          /\ Returns("Zone.Create", dom, ZoneCreate(disk, dom, clock, "none"), "")
          /\ call' = [op |-> "Zone.Create", dom |-> dom]
    /\ UNCHANGED <<clock, editor, inc, domVars, awVars, hVars>>

ShZoneWrite ==
    /\ ret = NoRet
    /\ \E dom \in ShDomains : \E content \in ShTexts(dom) :
          /\ Returns("Zone.Write", dom, ZoneWrite(disk, dom, content, clock, "none"), "")
          /\ call' = [op |-> "Zone.Write", dom |-> dom, content |-> content]
    /\ UNCHANGED <<clock, editor, inc, domVars, awVars, hVars>>

ShZoneDelete ==
    /\ ret = NoRet
    /\ \E dom \in ShDomains :
          /\ Returns("Zone.Delete", dom, ZoneDelete(disk, dom, "none"), "")
          /\ call' = [op |-> "Zone.Delete", dom |-> dom]
    /\ UNCHANGED <<clock, editor, inc, domVars, awVars, hVars>>

\* Read returns the file it read in Raw.
ShZoneRead ==
    /\ ret = NoRet
    /\ \E dom \in ShDomains :
          /\ ZoneExists(disk, dom)
          /\ Returns("Zone.Read", dom, ZoneRead(disk, dom, "none"), "")
          /\ call' = [op |-> "Zone.Read", dom |-> dom, zf |-> ZoneFileOf(disk, dom)]
    /\ UNCHANGED <<clock, editor, inc, domVars, awVars, hVars>>

ShZoneList ==
    /\ ret = NoRet
    /\ Returns("Zone.List", <<>>, Ret(disk, "nil", <<"readdir">>), "")
    /\ call' = [op |-> "Zone.List", domains |-> ZoneList(disk)]
    /\ UNCHANGED <<clock, editor, inc, domVars, awVars, hVars>>

InitShared == InitMgr

NextShared ==
    \/ MgrDone
    \/ ShGSLBCreate
    \/ ShGSLBDelete
    \/ ShZoneCreate
    \/ ShZoneWrite
    \/ ShZoneDelete
    \/ ShZoneRead
    \/ ShZoneList

SpecShared == InitShared /\ [][NextShared]_vars

(***************************************************************************)
(* SpecServe: the handlers that add to an artifact and the handlers that   *)
(* read, one goroutine per request, each handler the sequence of its       *)
(* steps: the calls of Handler.mu and of the managers.  A mutator of a     *)
(* manager is two steps, the read of the file and the atomic write of the  *)
(* text computed from what was read.  mu holds <<g, "w">> for the          *)
(* goroutine that holds the write lock and <<g, "r">> for every reader.    *)
(***************************************************************************)
SvDomain == <<"a", "a">>

\* The directory the requests find: the zone and the GSLB configuration of
\* the domain as Create writes them, and a Corefile.
SvSeed ==
    LET d1 == ZoneCreate(EmptyDisk, SvDomain, 0, "none").disk
        d2 == GSLBCreate(d1, SvDomain, "none").disk
    IN CorefileWrite(d2, <<Txt("x")>>, "none").disk

SvName == <<"a", "p", "p", ".">> \o Fqdn(SvDomain)

\* The steps of a handler.
Lk == [a |-> "Lock"]
Ul == [a |-> "Unlock"]
RLk == [a |-> "RLock"]
RUl == [a |-> "RUnlock"]
Rd(op) == [a |-> "read", op |-> op]
RdEach(op) == [a |-> "readeach", op |-> op]
MRead(op) == [a |-> "mread", op |-> op]
MWrite(op) == [a |-> "mwrite", op |-> op]

\* ZonesAddRecord (handlers/gslb.go:484-491, 514-517), GSLBAddBackend
\* (264-271, 298-301), HostsAddEntry (handlers/hosts.go:99-106, 128-131),
\* ZonesList (handlers/gslb.go:389-404), CorefileEdit (handlers/auth.go:
\* 73-76) and Dashboard (handlers/dashboard.go:37-53).
Script(h) ==
    CASE h = "ZonesAddRecord" ->
            <<Lk, MRead("Zones.AddRecord"), MWrite("Zones.AddRecord"), Ul,
              RLk, Rd("Zones.Read"), RUl>>
      [] h = "GSLBAddBackend" ->
            <<Lk, MRead("GSLB.AddBackend"), MWrite("GSLB.AddBackend"), Ul,
              RLk, Rd("GSLB.Read"), RUl>>
      [] h = "HostsAddEntry" ->
            <<Lk, MRead("Hosts.AddEntry"), MWrite("Hosts.AddEntry"), Ul,
              RLk, Rd("Hosts.Read"), RUl>>
      [] h = "ZonesList" ->
            <<RLk, Rd("Zones.List"), RUl, RdEach("Zones.Read")>>
      [] h = "CorefileEdit" ->
            <<RLk, Rd("Corefile.Read"), RUl>>
      [] h = "Dashboard" ->
            <<Rd("Corefile.Read"), RLk, Rd("Zones.List"), RUl,
              RLk, Rd("GSLB.List"), RUl>>

\* The requests: the handler, the kinds of artifact it touches and the
\* form values.
SvForms ==
    {[h |-> "ZonesAddRecord", kinds |-> {"zone"}, dom |-> SvDomain, rec |-> rec] :
         rec \in {ARecord, Rec(<<"p">>, "CNAME", <<"w">>, 0)}}
    \cup {[h |-> "GSLBAddBackend", kinds |-> {"gslb"}, dom |-> SvDomain, name |-> SvName,
           backend |-> b] : b \in {Backend("10.0.0.2", 2), Backend("10.0.0.3", 3)}}
    \cup {[h |-> "HostsAddEntry", kinds |-> {"hosts"}, dom |-> SvDomain,
           ip |-> "10.0.0.1", host |-> host] : host \in HostNames}
    \cup {[h |-> "ZonesList", kinds |-> {"zone"}],
          [h |-> "CorefileEdit", kinds |-> {"corefile"}],
          [h |-> "Dashboard", kinds |-> {"corefile", "zone", "gslb"}]}

SvIdle == [pc |-> 0]

\* The step the goroutine is at, and whether its request is answered.
SvStep(r) ==
    IF r.pc >= 1 /\ r.pc <= Len(Script(r.h)) THEN Script(r.h)[r.pc] ELSE [a |-> "none"]
SvDone(r) == r.pc >= 1 /\ r.pc > Len(Script(r.h))

\* The lock the goroutine holds.
Held(m, g) ==
    IF <<g, "w">> \in m THEN "w" ELSE IF <<g, "r">> \in m THEN "r" ELSE "none"

\* sync.RWMutex.RLock returns when no goroutine holds the write lock.
CanRLock(m) == \A x \in m : x[2] = "r"

\* The file a mutator works on, and its call.
SvTarget(r) ==
    CASE r.h = "ZonesAddRecord" -> ZoneFilename(r.dom)
      [] r.h = "GSLBAddBackend" -> GSLBFilename(r.dom)
      [] r.h = "HostsAddEntry" -> HostsFilename(r.dom)

SvApply(r, d, today) ==
    CASE r.h = "ZonesAddRecord" -> ZoneAddRecord(d, r.dom, r.rec, today, "none")
      [] r.h = "GSLBAddBackend" -> GSLBAddBackend(d, r.dom, r.name, r.backend, "none")
      [] r.h = "HostsAddEntry" -> HostsAddEntry(d, r.dom, r.ip, r.host, "none")

\* The directory d with the file f as it was read.
WithFile(d, f, file) ==
    IF file = NoFile THEN [x \in DOMAIN d \ {f} |-> d[x]]
    ELSE [x \in DOMAIN d \cup {f} |-> IF x = f THEN file ELSE d[x]]

\* A request arrives; each goroutine serves one.
SvReceive(g) ==
    /\ reqs[g].pc = 0
    /\ \E f \in SvForms :
          reqs' = [reqs EXCEPT ![g] =
                      [pc |-> 1, h |-> f.h, form |-> f, err |-> "nil", raw |-> NoFile,
                       wrote |-> FALSE, calls |-> {}, todo |-> {}, contended |-> FALSE]]
    /\ UNCHANGED <<disk, prevDisk, mu, mgrVars, domVars, awVars, callVars>>

\* h.mu.Lock()
SvLock(g) ==
    /\ SvStep(reqs[g]) = Lk
    /\ CanLock(mu)
    /\ mu' = mu \cup {<<g, "w">>}
    /\ reqs' = [reqs EXCEPT ![g].pc = @ + 1,
                            ![g].contended =
                                \E g2 \in Goroutines \ {g} : SvStep(reqs[g2]) = Lk]
    /\ UNCHANGED <<disk, prevDisk, mgrVars, domVars, awVars, callVars>>

\* h.mu.Unlock(); the handler answers at once when the manager returned an
\* error.
SvUnlock(g) ==
    /\ SvStep(reqs[g]) = Ul
    /\ mu' = mu \ {<<g, "w">>}
    /\ reqs' = [reqs EXCEPT ![g].pc = IF reqs[g].err # "nil"
                                      THEN Len(Script(reqs[g].h)) + 1 ELSE @ + 1]
    /\ UNCHANGED <<disk, prevDisk, mgrVars, domVars, awVars, callVars>>

\* h.mu.RLock()
SvRLock(g) ==
    /\ SvStep(reqs[g]) = RLk
    /\ CanRLock(mu)
    /\ mu' = mu \cup {<<g, "r">>}
    /\ reqs' = [reqs EXCEPT ![g].pc = @ + 1]
    /\ UNCHANGED <<disk, prevDisk, mgrVars, domVars, awVars, callVars>>

\* h.mu.RUnlock()
SvRUnlock(g) ==
    /\ SvStep(reqs[g]) = RUl
    /\ mu' = mu \ {<<g, "r">>}
    /\ reqs' = [reqs EXCEPT ![g].pc = @ + 1]
    /\ UNCHANGED <<disk, prevDisk, mgrVars, domVars, awVars, callVars>>

\* A call of Read, ReadRaw or List; Zones.List returns the domains the
\* handler then reads one by one.
SvRead(g) ==
    /\ SvStep(reqs[g]).a = "read"
    /\ LET op == SvStep(reqs[g]).op
       IN reqs' = [reqs EXCEPT
                      ![g].pc = @ + 1,
                      ![g].calls = @ \cup {[op |-> op, held |-> Held(mu, g)]},
                      ![g].todo = IF op = "Zones.List" THEN ZoneList(disk) ELSE @]
    /\ UNCHANGED <<disk, prevDisk, mu, mgrVars, domVars, awVars, callVars>>

\* The loop of ZonesList: h.Zones.Read(d) for every domain listed.
SvReadEach(g) ==
    /\ SvStep(reqs[g]).a = "readeach"
    /\ IF reqs[g].todo = {}
       THEN reqs' = [reqs EXCEPT ![g].pc = @ + 1]
       ELSE \E d \in reqs[g].todo :
               reqs' = [reqs EXCEPT
                           ![g].todo = @ \ {d},
                           ![g].calls = @ \cup {[op |-> SvStep(reqs[g]).op,
                                                 held |-> Held(mu, g)]}]
    /\ UNCHANGED <<disk, prevDisk, mu, mgrVars, domVars, awVars, callVars>>

\* The mutator reads the file (zone.go:215, gslb.go:285, hosts.go:147).
SvMgrRead(g) ==
    /\ SvStep(reqs[g]).a = "mread"
    /\ reqs' = [reqs EXCEPT
                   ![g].pc = @ + 1,
                   ![g].raw = FileAt(disk, SvTarget(reqs[g].form)),
                   ![g].calls = @ \cup {[op |-> SvStep(reqs[g]).op, held |-> Held(mu, g)]}]
    /\ UNCHANGED <<disk, prevDisk, mu, mgrVars, domVars, awVars, callVars>>

\* The mutator writes the text it computed from what it read (zone.go:
\* 220-229, gslb.go:290-296, hosts.go:152-164).
SvMgrWrite(g) ==
    /\ SvStep(reqs[g]).a = "mwrite"
    /\ LET r == reqs[g]
           w == SvApply(r.form, WithFile(disk, SvTarget(r.form), r.raw), clock)
       IN /\ disk' = IF w.err = "nil" THEN w.disk ELSE disk
          /\ reqs' = [reqs EXCEPT ![g].pc = @ + 1, ![g].err = w.err,
                                  ![g].wrote = (w.err = "nil")]
    /\ prevDisk' = disk
    /\ UNCHANGED <<mu, mgrVars, domVars, awVars, callVars>>

InitServe ==
    /\ disk = SvSeed
    /\ prevDisk = SvSeed
    /\ reqs = [g \in Goroutines |-> SvIdle]
    /\ mu = {}
    /\ clock = 0
    /\ ret = NoRet
    /\ editor = <<>>
    /\ inc = NoInc
    /\ domain = <<>>
    /\ verr = "unchecked"
    /\ aw = AwIdle
    /\ seen = NotRead
    /\ call = NoCall

NextServe ==
    \E g \in Goroutines :
        \/ SvReceive(g)
        \/ SvLock(g)
        \/ SvUnlock(g)
        \/ SvRLock(g)
        \/ SvRUnlock(g)
        \/ SvRead(g)
        \/ SvReadEach(g)
        \/ SvMgrRead(g)
        \/ SvMgrWrite(g)

SpecServe == InitServe /\ [][NextServe]_vars

(***************************************************************************)
(* SpecSave: the handlers that save a text, one goroutine per request:     *)
(* ZonesSave, CorefileSave, GSLBSaveRaw and HostsSave.  Each checks the    *)
(* form, takes the write lock, saves, releases the lock and then, when the *)
(* save succeeded and the form asked for it, calls Docker.ReloadCoreDNS.   *)
(* call holds the last step taken and the goroutine that took it.          *)
(***************************************************************************)
SaDomain == <<"a", "a">>

LBrace == Txt("{")
RBrace == Txt("}")

\* Validate (unnamed/part_003:66-80): not empty and as many { as }.
CorefileValidate(content) ==
    IF TrimSpace(content) = <<>> THEN "Corefile cannot be empty"
    ELSE IF Cardinality({i \in 1..Len(content) : content[i] = LBrace})
            # Cardinality({i \in 1..Len(content) : content[i] = RBrace})
    THEN "unbalanced braces"
    ELSE "nil"

\* The requests: the handler and the form values.
SaveForms ==
    UNION {
       {[h |-> "ZonesSave", isNew |-> TRUE, dom |-> SaDomain, content |-> <<>>,
         reload |-> rl]}
       \cup {[h |-> "ZonesSave", isNew |-> FALSE, dom |-> SaDomain, content |-> c,
              reload |-> rl] :
                c \in {<<>>, <<ZJunk>>, Crlf(CreateContent(SaDomain, 0))}}
       \cup {[h |-> "CorefileSave", isNew |-> FALSE, dom |-> <<>>, content |-> c,
              reload |-> rl] :
                c \in {<<>>, <<Txt("x"), LBrace>>, <<Txt("x"), LBrace, RBrace>>}}
       \cup {[h |-> "GSLBSaveRaw", isNew |-> FALSE, dom |-> SaDomain, content |-> c,
              reload |-> rl] :
                c \in {<<LF>>, <<ZJunk, LF>>, Marshal(DefaultConfig(SaDomain))}}
       \cup {[h |-> "HostsSave", isNew |-> FALSE, dom |-> SaDomain, content |-> c,
              reload |-> rl] :
                c \in {<<>>, <<HEntry("10.0.0.1", "h1")>>}}
       : rl \in BOOLEAN}

\* The checks a handler makes before it takes the lock (handlers/gslb.go:
\* 137-145, 561-564; handlers/auth.go:107-110; handlers/hosts.go:174-182).
SaPreCheck(f) ==
    IF f.h = "CorefileSave"
    THEN (IF CorefileValidate(f.content) # "nil" THEN "Validation failed" ELSE "nil")
    ELSE IF ValidateDomain(f.dom) # "nil" THEN "Invalid domain"
    ELSE IF f.h = "GSLBSaveRaw" /\ TrimSpace(f.content) = <<>> THEN "Content cannot be empty"
    ELSE IF f.h = "HostsSave" /\ f.content = <<>> THEN "Content cannot be empty"
    ELSE "nil"

\* What the handler does under the lock (handlers/gslb.go:148, 567-584;
\* handlers/auth.go:113; handlers/hosts.go:185).
SaApply(f, d, today, fault) ==
    CASE f.h = "ZonesSave" ->
            IF f.isNew /\ f.content = <<>> THEN ZoneCreate(d, f.dom, today, fault)
            ELSE IF f.content = <<>> THEN Ret(d, "Content cannot be empty", <<>>)
            ELSE IF ZoneValidate(f.dom, f.content) # "nil"
            THEN Ret(d, "Validation failed", <<>>)
            ELSE ZoneWrite(d, f.dom, f.content, today, fault)
      [] f.h = "CorefileSave" -> CorefileWrite(d, f.content, fault)
      [] f.h = "GSLBSaveRaw" -> GSLBWriteRaw(d, f.dom, f.content, fault)
      [] f.h = "HostsSave" -> HostsWrite(d, f.dom, f.content, fault)

\* The file the request saves.
SaTarget(f) ==
    CASE f.h = "ZonesSave" -> ZoneFilename(f.dom)
      [] f.h = "CorefileSave" -> CorefilePath
      [] f.h = "GSLBSaveRaw" -> GSLBFilename(f.dom)
      [] f.h = "HostsSave" -> HostsFilename(f.dom)

\* A mutant of the test before the reload: the result of the save is not
\* looked at.
ReloadAsked(r) == r.form.reload

\* The handler reloads when the save returned no error and the form has
\* reload=true (handlers/gslb.go:150-155, 587-592; handlers/auth.go:115-120;
\* handlers/hosts.go:187-192).
ReloadAfter(r) == r.err = "nil" /\ r.form.reload

\* A request arrives; each goroutine serves one.
SaReceive(g) ==
    /\ reqs[g].pc = "idle"
    /\ \E f \in SaveForms :
          reqs' = [reqs EXCEPT ![g] =
                      [pc |-> IF SaPreCheck(f) = "nil" THEN "lock" ELSE "done",
                       form |-> f, err |-> SaPreCheck(f), saved |-> FALSE,
                       signal |-> "none", heldAtReload |-> FALSE,
                       flash |-> IF SaPreCheck(f) = "nil" THEN "" ELSE "error"]]
    /\ prevDisk' = disk
    /\ call' = [op |-> "receive", g |-> g]
    /\ UNCHANGED <<disk, mu, mgrVars, domVars, awVars>>

\* h.mu.Lock()
SaLock(g) ==
    /\ reqs[g].pc = "lock"
    /\ CanLock(mu)
    /\ mu' = mu \cup {<<g, "w">>}
    /\ reqs' = [reqs EXCEPT ![g].pc = "save"]
    /\ prevDisk' = disk
    /\ call' = [op |-> "Lock", g |-> g]
    /\ UNCHANGED <<disk, mgrVars, domVars, awVars>>

\* Under the lock: the checks and the write of the manager.
SaSave(g) ==
    /\ reqs[g].pc = "save"
    /\ \E fault \in HFaults :
          LET w == SaApply(reqs[g].form, disk, clock, fault)
          IN /\ disk' = w.disk
             /\ reqs' = [reqs EXCEPT ![g].pc = "unlock", ![g].err = w.err,
                                     ![g].saved = (w.err = "nil")]
    /\ prevDisk' = disk
    /\ call' = [op |-> "save", g |-> g]
    /\ UNCHANGED <<mu, mgrVars, domVars, awVars>>

\* h.mu.Unlock(), and the answer when there is no reload to make.
SaUnlock(g) ==
    /\ reqs[g].pc = "unlock"
    /\ mu' = mu \ {<<g, "w">>}
    /\ reqs' = [reqs EXCEPT
                   ![g].pc = IF ReloadAfter(reqs[g]) THEN "reload" ELSE "done",
                   ![g].flash = IF reqs[g].err # "nil" THEN "error"
                                ELSE IF ReloadAfter(reqs[g]) THEN "" ELSE "success"]
    /\ prevDisk' = disk
    /\ call' = [op |-> "Unlock", g |-> g]
    /\ UNCHANGED <<disk, mgrVars, domVars, awVars>>

\* h.Docker.ReloadCoreDNS() (unnamed/part_000:72-90): the signal is sent or
\* the call fails; no file is touched.
SaReload(g) ==
    /\ reqs[g].pc = "reload"
    /\ \E ok \in BOOLEAN :
          reqs' = [reqs EXCEPT ![g].pc = "done",
                               ![g].signal = IF ok THEN "sent" ELSE "failed",
                               ![g].heldAtReload = (<<g, "w">> \in mu),
                               ![g].flash = IF ok THEN "success" ELSE "warning"]
    /\ prevDisk' = disk
    /\ call' = [op |-> "Docker.ReloadCoreDNS", g |-> g]
    /\ UNCHANGED <<disk, mu, mgrVars, domVars, awVars>>

InitSave == InitHandlers

NextSave ==
    \E g \in Goroutines :
        SaReceive(g) \/ SaLock(g) \/ SaSave(g) \/ SaUnlock(g) \/ SaReload(g)

SpecSave == InitSave /\ [][NextSave]_vars

(***************************************************************************)
(* The claims about atomicWrite (SpecAtomic).                              *)
(***************************************************************************)
\* C1: at every step of an atomic write (temporary file created, content
\* written, closed, chmod, rename), and so for any concurrent reader and at
\* any crash point, the target path holds the complete previous content or
\* the complete new content: it is never missing when it existed, never
\* truncated and never partially written.
C1_TargetOldOrNew ==
    aw.pc # "idle" =>
        LET old == FileAt(prevDisk, aw.path)
            whole(f) == f = old \/ (f.mode \notin {"absent", "notread"} /\ f.data = aw.content)
        IN /\ whole(FileAt(disk, aw.path))
           /\ seen # NotRead => whole(seen)

\* The process was killed with half of the new content in the temporary
\* file, and a reader has read the target: it read the old content.
C1_Witness ==
    /\ aw.pc = "crashed"
    /\ aw.n = 1
    /\ Len(aw.content) = 2
    /\ aw.tmp \in DOMAIN disk
    /\ seen = FileAt(prevDisk, aw.path)
    /\ seen.mode = "0640"
    /\ seen.data # aw.content

C5_ValidateDomainIff ==
    verr # "unchecked" =>
        LET n == Len(domain)
            matches == /\ n >= 2
                       /\ domain[1] \in AlNum
                       /\ domain[n] \in AlNum
                       /\ \A i \in 2..(n - 1) : domain[i] \in AlNum \cup {".", "-"}
            clean == /\ \A i \in 1..n : domain[i] \notin {"/", "\\"}
                     /\ \A i \in 1..(n - 1) : ~(domain[i] = "." /\ domain[i + 1] = ".")
        IN /\ (verr = "nil") <=> (matches /\ clean)
           /\ n <= 1 => verr # "nil"
           /\ (n >= 1 /\ (domain[1] \in {".", "-"} \/ domain[n] \in {".", "-"})) => verr # "nil"

\* A name with both separators inside it was checked and accepted.
C5_Witness ==
    /\ verr = "nil"
    /\ domain = <<"a", "-", ".", "7">>

C6_NormalizedOnDisk ==
    (/\ ret.op \in {"Zone.Write", "Zone.AddRecord", "Zone.RemoveRecord",
                    "Hosts.Write", "Hosts.AddEntry", "Hosts.RemoveEntry",
                    "GSLB.WriteRaw", "Corefile.Write"}
     /\ ret.err = "nil") =>
        \A f \in DOMAIN disk :
            /\ ~Contains(disk[f].data, <<CR, LF>>)
            /\ HasSuffix(disk[f].data, <<LF>>)
            /\ ~HasSuffix(disk[f].data, <<LF, LF>>)

(***************************************************************************)
(* The claims about the SOA serial (SpecIncrement, SpecSerial).            *)
(***************************************************************************)
\* C7: incrementSOASerial on a text whose SOA serial is a token of ten
\* digits: when the first eight digits are today's date the new serial is
\* that date followed by the two-digit sequence number increased by exactly
\* one; otherwise it is today's date followed by "01", whatever the serial
\* was.  The rest of the text is unchanged.
C7_IncrementArithmetic ==
    inc.pc = "done" =>
        LET old == SerialOf(inc.in)
            new == SerialOf(inc.out)
            t == TodayDigits(clock)
            i == SerialMatch(inc.in)
        IN /\ inc.out = [inc.in EXCEPT ![i].digits = new]
           /\ IF SubSeq(old, 1, 8) = t
              THEN /\ Len(new) = 10
                   /\ SubSeq(new, 1, 8) = t
                   /\ Atoi2(SubSeq(new, 9, 10)) = Atoi2(SubSeq(old, 9, 10)) + 1
              ELSE new = t \o <<0, 1>>

\* C8: after any number of successful Write, AddRecord and RemoveRecord
\* operations on a zone created by Create, 100 or more on one day included,
\* the SOA serial in the file is ten digits (YYYYMMDDNN) and fits an
\* unsigned 32-bit integer.
C8_SerialTenDigits ==
    Exists(disk, ZoneFilename(SerDomain)) =>
        LET serial == SerialOf(disk[ZoneFilename(SerDomain)].data)
        IN /\ Len(serial) = 10
           /\ FitsUint32(serial)

\* C9: every successful Write, AddRecord and RemoveRecord on a zone created
\* by Create, with a clock that never goes backwards, leaves a serial in
\* the file that is greater than the serial the file held before it.
C9_SerialIncreases ==
    (/\ ret.op \in {"Zone.Write", "Zone.AddRecord", "Zone.RemoveRecord"}
     /\ ret.err = "nil"
     /\ Exists(prevDisk, ZoneFilename(SerDomain))) =>
        NumLess(SerialOf(prevDisk[ZoneFilename(SerDomain)].data),
                SerialOf(disk[ZoneFilename(SerDomain)].data))

ApexNS(content, origin) ==
    SelectSeq(ZoneParse(content, origin).rrs,
              LAMBDA rr : rr.type = "NS" /\ relativeName(rr.name, origin) = <<"@">>)

\* C11: Create on a valid domain that has no zone file writes a text that
\* passes Validate and holds exactly one SOA record, its serial today's date
\* followed by 01, and exactly one apex NS record, its target ns1.<origin>;
\* a Read after it returns that SOA and no editable record.
C11_CreateContent ==
    (ret.op = "Zone.Create" /\ ret.err = "nil") =>
        LET dom == ret.dom
            origin == Fqdn(dom)
            data == FileAt(disk, ZoneFilename(dom)).data
            zf == ZoneFileOf(disk, dom)
        IN /\ ZoneValidate(dom, data) = "nil"
           /\ Count(data, "soa(") = 1
           /\ zf.SOA.Serial = TodayDigits(clock) \o <<0, 1>>
           /\ Len(ApexNS(data, origin)) = 1
           /\ ApexNS(data, origin)[1].value = <<"n", "s", "1", ".">> \o origin
           /\ zf.Records = <<>>

\* C12: after a successful AddRecord(d, rec) on a zone file that passes
\* Validate, Read(d) returns the records it returned before followed by a
\* record with rec's name, type, value and priority, and an SOA serial
\* greater than before.
C12_AddRecordThenRead ==
    (/\ ret.op = "Zone.AddRecord" /\ ret.err = "nil"
     /\ call.op = "Zone.AddRecord"
     /\ ZoneValidate(ret.dom, FileAt(prevDisk, ZoneFilename(ret.dom)).data) = "nil") =>
        LET before == ZoneFileOf(prevDisk, ret.dom)
            after == ZoneFileOf(disk, ret.dom)
            n == Len(after.Records)
        IN /\ n = Len(before.Records) + 1
           /\ SubSeq(after.Records, 1, n - 1) = before.Records
           /\ after.Records[n].Name = call.rec.Name
           /\ after.Records[n].Type = call.rec.Type
           /\ after.Records[n].Value = call.rec.Value
           /\ after.Records[n].Priority = call.rec.Priority
           /\ NumLess(before.SOA.Serial, after.SOA.Serial)

\* The lines of d's zone file in the directory dk that match the triple of
\* the RemoveRecord call.
MatchingLines(dk, c) ==
    LET lines == SplitLF(FileAt(dk, ZoneFilename(c.dom)).data)
    IN {i \in 1..Len(lines) : matchesRecord(lines[i], c.name, c.type, c.value, Fqdn(c.dom))}

\* C13: RemoveRecord(d, name, type, value) on a zone file no line of which
\* matches returns "record not found" and leaves the directory as it was:
\* the file is not rewritten and its serial is not changed.
C13_RemoveNotFound ==
    (/\ ret.op = "Zone.RemoveRecord" /\ call.op = "Zone.RemoveRecord"
     /\ Exists(prevDisk, ZoneFilename(ret.dom))
     /\ MatchingLines(prevDisk, call) = {}) =>
        /\ ret.err = "record not found"
        /\ disk = prevDisk
        /\ "createtemp" \notin {ret.io[i] : i \in 1..Len(ret.io)}

\* RemoveRecord of the A record w was called on the zone Create wrote, with
\* a record p in it, and found no line.
C13_Witness ==
    /\ ret.op = "Zone.RemoveRecord" /\ call.op = "Zone.RemoveRecord"
    /\ ret.dom = <<"a", "a">>
    /\ call.name = <<"w">> /\ call.type = "A"
    /\ ret.err = "record not found"
    /\ Len(SerialOf(disk[ZoneFilename(ret.dom)].data)) = 10
    /\ Count(disk[ZoneFilename(ret.dom)].data, "rr") = 2
    /\ disk = prevDisk

\* The text b is the text a but for the digits of at most one serial token.
SameButSerial(a, b) ==
    /\ Len(a) = Len(b)
    /\ \A k \in 1..Len(a) :
          a[k] = b[k] \/ (a[k].k = "serial" /\ b[k] = [a[k] EXCEPT !.digits = b[k].digits])
    /\ Cardinality({k \in 1..Len(a) : a[k] # b[k]}) <= 1

\* C14: a successful RemoveRecord removes exactly one line, the first line
\* of the file that matches (name, type, value); every other line, later
\* matches, comments and directives included, is kept in its place, and
\* besides the removed line only the serial token differs.
C14_RemoveFirstMatch ==
    (/\ ret.op = "Zone.RemoveRecord" /\ call.op = "Zone.RemoveRecord"
     /\ ret.err = "nil") =>
        LET lines == SplitLF(FileAt(prevDisk, ZoneFilename(ret.dom)).data)
            hits == MatchingLines(prevDisk, call)
        IN /\ hits # {}
           /\ LET first == CHOOSE h \in hits : \A j \in hits : h <= j
              IN SameButSerial(JoinLF(RemoveAt(lines, first)),
                               FileAt(disk, ZoneFilename(ret.dom)).data)

\* RemoveRecord(w, A, 10.0.0.1) was called on a zone with two lines that
\* match, "w IN A 10.0.0.1" and after it "w.aa. IN A 10.0.0.1": the second
\* is still in the file, the first is not.
C14_Witness ==
    /\ ret.op = "Zone.RemoveRecord" /\ call.op = "Zone.RemoveRecord"
    /\ ret.err = "nil" /\ ret.dom = <<"a", "a">>
    /\ Cardinality(MatchingLines(prevDisk, call)) = 2
    /\ LET old == SplitLF(prevDisk[ZoneFilename(ret.dom)].data)
           hits == MatchingLines(prevDisk, call)
           new == SplitLF(disk[ZoneFilename(ret.dom)].data)
       IN \E i, j \in hits :
             /\ i < j
             /\ old[i] # old[j]
             /\ old[i] = formatRecord(ARecord)
             /\ \E k \in 1..Len(new) : new[k] = old[j]
             /\ \A k \in 1..Len(new) : new[k] # old[i]

\* C15: Read of a zone file whose text has a grammar error returns an
\* error, not a result that holds the records parsed before the error.
C15_ReadParseError ==
    (/\ ret.op = "Zone.Read" /\ call.op = "Zone.Read"
     /\ Exists(disk, ZoneFilename(ret.dom))
     /\ ZoneParse(disk[ZoneFilename(ret.dom)].data, Fqdn(ret.dom)).err) =>
        ret.err # "nil"

(***************************************************************************)
(* The claim about the save path of zones (SpecHandlers).                  *)
(***************************************************************************)
\* The directory that holds the text of request r under its file name.
Holding(r) == [f \in {HTarget(r)} |-> [data |-> r.content, mode |-> "0600"]]

\* C16: a text with a grammar error or without an SOA record is not
\* persisted by ZonesSave: the request ends with a validation failure, never
\* reaches the write, and the zone file is as it was when the lock was taken;
\* a file that holds such a text is still read without an error, the SOA
\* absent when the text has none.
C16_SaveRejectsInvalid ==
    \A g \in Goroutines :
        LET r == reqs[g]
        IN (/\ r.pc \in {"check", "write", "unlock"}
            /\ r.h = "ZonesSave" /\ r.content # <<>>
            /\ LET z == ZoneParse(r.content, Fqdn(r.dom)) IN z.err \/ ~z.soa) =>
               /\ r.pc # "write"
               /\ r.pc = "unlock" => r.err = "Validation failed"
               /\ FileAt(disk, HTarget(r)) = r.old
               /\ ZoneRead(Holding(r), r.dom, "none").err = "nil"
               /\ ~ZoneParse(r.content, Fqdn(r.dom)).soa =>
                      ZoneFileOf(Holding(r), r.dom).SOA = NoSOA

\* ZonesSave of a text that is one A record and no SOA, for the zone aa that
\* exists, was refused under the lock.
C16_Witness ==
    \E g \in Goroutines :
        /\ reqs[g].pc = "unlock"
        /\ reqs[g].h = "ZonesSave" /\ ~reqs[g].isNew
        /\ reqs[g].content = formatRecord(ARecord) \o <<LF>>
        /\ reqs[g].err = "Validation failed"
        /\ reqs[g].old # NoFile
        /\ FileAt(disk, HTarget(reqs[g])) = reqs[g].old


(***************************************************************************)
(* The claims about GSLBManager (SpecValidate, SpecGSLB).                  *)
(***************************************************************************)
\* The configuration has a record, and every record is not nil, has one of
\* the five modes and a backend, and no backend of it has an empty address.
WellFormed(cfg) ==
    /\ DOMAIN cfg.records # {}
    /\ \A n \in DOMAIN cfg.records :
          LET rec == cfg.records[n]
          IN /\ ~IsNil(rec)
             /\ rec.mode \in {"failover", "roundrobin", "random", "weighted", "geoip"}
             /\ Len(rec.backends) >= 1
             /\ \A i \in 1..Len(rec.backends) : rec.backends[i].address # ""

\* C17: ValidateRaw(content) returns nil exactly when content is not white
\* space alone, is YAML that deserializes, has at least one record, and
\* every record is not nil, has a mode among failover, roundrobin, random,
\* weighted and geoip, has at least one backend, and has no backend with an
\* empty address.
C17_ValidateRawIff ==
    (call.op = "GSLB.ValidateRaw" /\ call.err # "pending") =>
        ((call.err = "nil") <=>
            (/\ \E i \in 1..Len(call.content) : ~IsSpace(call.content[i])
             /\ ~Unmarshal(call.content).err
             /\ WellFormed(Unmarshal(call.content).cfg)))

\* ValidateRaw refused a text whose only fault is a record without backends
\* next to a well-formed one.
C17_Witness ==
    /\ call.op = "GSLB.ValidateRaw"
    /\ call.err = "record must have at least one backend"
    /\ LET recs == Unmarshal(call.content).cfg.records
       IN /\ DOMAIN recs = RawNames
          /\ recs[<<"r">>] = GSLBRecord("geoip", 30, "10s", <<>>)
          /\ recs[<<"s">>] = GSLBRecord("failover", 30, "10s", <<Backend("10.0.0.1", 1)>>)

\* The configuration in the file of the domain, in the directory d.
GSLBConfigOf(d) == GSLBRead(d, GDomain, "none").cfg

\* C18: once Create has written the configuration, after every operation of
\* the manager (AddRecord, RemoveRecord, UpdateRecord, AddBackend,
\* RemoveBackend, WriteRaw) the configuration in the file has a record, every
\* record has a backend and a valid mode, and every backend an address: the
\* text of the file passes ValidateRaw.
C18_AlwaysValid ==
    Exists(disk, GSLBFilename(GDomain)) =>
        /\ WellFormed(GSLBConfigOf(disk))
        /\ ValidateRaw(disk[GSLBFilename(GDomain)].data) = "nil"

\* The steps of the call that returned include no write.
NoWrite(r) == "createtemp" \notin {r.io[i] : i \in 1..Len(r.io)}

\* C19: RemoveRecord, UpdateRecord, AddBackend and RemoveBackend called with
\* a name that is not in the configuration return "record not found";
\* AddRecord called with a name that is in it returns "record already
\* exists"; in both cases nothing is written and the file, and so every
\* record in it, is as before.
C19_LookupFirst ==
    (/\ ret # NoRet
     /\ ret.op = call.op
     /\ Exists(prevDisk, GSLBFilename(GDomain))
     /\ GSLBRead(prevDisk, GDomain, "none").err = "nil") =>
        /\ (/\ call.op \in {"GSLB.RemoveRecord", "GSLB.UpdateRecord",
                            "GSLB.AddBackend", "GSLB.RemoveBackend"}
            /\ call.name \notin DOMAIN GSLBConfigOf(prevDisk).records) =>
               /\ ret.err = "record not found"
               /\ NoWrite(ret)
               /\ disk = prevDisk
        /\ (/\ call.op = "GSLB.AddRecord"
            /\ call.name \in DOMAIN GSLBConfigOf(prevDisk).records) =>
               /\ ret.err = "record already exists"
               /\ NoWrite(ret)
               /\ disk = prevDisk

\* AddRecord was called with the name of the record Create wrote, which has
\* a backend, and was refused; the record is still there.
C19_Witness ==
    /\ ret # NoRet
    /\ call.op = "GSLB.AddRecord"
    /\ call.name = <<"a", "p", "p", ".">> \o Fqdn(GDomain)
    /\ ret.err = "record already exists"
    /\ Exists(disk, GSLBFilename(GDomain))
    /\ call.name \in DOMAIN GSLBConfigOf(disk).records
    /\ Len(GSLBConfigOf(disk).records[call.name].backends) >= 1
    /\ disk = prevDisk

\* C20: RemoveBackend(domain, record, i) on a record of the configuration
\* with i < 0 or i >= len(backends) returns "backend index out of range"
\* and writes nothing; with 0 <= i < len(backends) it succeeds and the
\* record's backends are then the backends before without the one at
\* position i (counted from 0), the others in their order, the record's
\* settings and every other record and the profiles as before.
C20_RemoveBackend ==
    (/\ ret # NoRet
     /\ ret.op = "GSLB.RemoveBackend" /\ call.op = "GSLB.RemoveBackend"
     /\ Exists(prevDisk, GSLBFilename(GDomain))
     /\ GSLBRead(prevDisk, GDomain, "none").err = "nil"
     /\ call.name \in DOMAIN GSLBConfigOf(prevDisk).records) =>
        LET old == GSLBConfigOf(prevDisk)
            new == GSLBConfigOf(disk)
            bs == old.records[call.name].backends
            i == call.index
        IN IF i < 0 \/ i >= Len(bs)
           THEN /\ ret.err = "backend index out of range"
                /\ NoWrite(ret)
                /\ disk = prevDisk
           ELSE /\ ret.err = "nil"
                /\ GSLBRead(disk, GDomain, "none").err = "nil"
                /\ DOMAIN new.records = DOMAIN old.records
                /\ new.profiles = old.profiles
                /\ \A n \in DOMAIN old.records \ {call.name} :
                      new.records[n] = old.records[n]
                /\ new.records[call.name].mode = old.records[call.name].mode
                /\ new.records[call.name].ttl = old.records[call.name].ttl
                /\ new.records[call.name].scrape = old.records[call.name].scrape
                /\ Len(new.records[call.name].backends) = Len(bs) - 1
                /\ \A k \in 1..(Len(bs) - 1) :
                      new.records[call.name].backends[k] =
                          IF k <= i THEN bs[k] ELSE bs[k + 1]

\* RemoveBackend removed the first of two different backends of a record, in
\* a configuration of two records, and the second backend is what is left.
C20_Witness ==
    /\ ret # NoRet
    /\ ret.op = "GSLB.RemoveBackend" /\ call.op = "GSLB.RemoveBackend"
    /\ ret.err = "nil"
    /\ call.index = 0
    /\ Exists(prevDisk, GSLBFilename(GDomain))
    /\ DOMAIN GSLBConfigOf(prevDisk).records = GNames
    /\ LET bs == GSLBConfigOf(prevDisk).records[call.name].backends
       IN /\ Len(bs) = 2
          /\ bs[1] # bs[2]
          /\ GSLBConfigOf(disk).records[call.name].backends = <<bs[2]>>


\* C21: WriteRaw(domain, content) with a content that ValidateRaw refuses
\* returns an error, writes nothing and leaves the directory, and so the
\* configuration file, as it was; a call of WriteRaw that changes the
\* directory was made with a content that ValidateRaw accepts, and the file
\* then holds that content with LF line ends.
C21_WriteRawValidates ==
    (ret # NoRet /\ ret.op = "GSLB.WriteRaw" /\ call.op = "GSLB.WriteRaw") =>
        /\ ValidateRaw(call.content) # "nil" =>
              /\ ret.err # "nil"
              /\ NoWrite(ret)
              /\ disk = prevDisk
        /\ disk # prevDisk =>
              /\ ValidateRaw(call.content) = "nil"
              /\ ret.err = "nil"
              /\ disk[GSLBFilename(GDomain)].data = Normalize(call.content)

\* WriteRaw was called with a record without backends while the file held
\* the configuration Create wrote, and was refused; the file still holds it.
C21_Witness ==
    /\ ret # NoRet /\ ret.op = "GSLB.WriteRaw" /\ call.op = "GSLB.WriteRaw"
    /\ ValidateRaw(call.content) = "record must have at least one backend"
    /\ ret.err = "record must have at least one backend"
    /\ Exists(disk, GSLBFilename(GDomain))
    /\ disk[GSLBFilename(GDomain)].data = Marshal(DefaultConfig(GDomain))


(***************************************************************************)
(* The claims about HostsManager (SpecHosts).                              *)
(***************************************************************************)
\* The lines of the hosts file in d that are neither blank nor a comment
\* and whose first two fields are the ip and the hostname of the call c.
EntryLines(d, c) ==
    LET lines == SplitLF(FileAt(d, HostsFilename(c.dom)).data)
    IN {i \in 1..Len(lines) :
           LET trimmed == TrimSpace(lines[i])
           IN /\ trimmed # <<>>
              /\ trimmed[1] # HComment
              /\ Len(Fields(trimmed)) >= 2
              /\ Fields(trimmed)[1] = c.ip
              /\ Fields(trimmed)[2] = c.host}

\* C22: RemoveEntry(domain, ip, hostname) on a hosts file succeeds and
\* leaves the lines of the file without the first line that is not a
\* comment and whose first two fields are ip and hostname: every other
\* line, later lines with the same entry, comments and blank lines
\* included, is as before and in its place.
C22_RemoveFirstEntry ==
    (/\ ret.op = "Hosts.RemoveEntry" /\ call.op = "Hosts.RemoveEntry"
     /\ Exists(prevDisk, HostsFilename(call.dom))
     /\ EntryLines(prevDisk, call) # {}) =>
        LET old == SplitLF(prevDisk[HostsFilename(call.dom)].data)
            new == SplitLF(FileAt(disk, HostsFilename(call.dom)).data)
            first == CHOOSE i \in EntryLines(prevDisk, call) :
                         \A j \in EntryLines(prevDisk, call) : i <= j
        IN /\ ret.err = "nil"
           /\ Len(new) = Len(old) - 1
           /\ \A k \in 1..(first - 1) : new[k] = old[k]
           /\ \A k \in first..(Len(old) - 1) : new[k] = old[k + 1]

\* RemoveEntry removed the indented entry with the alias, the first that
\* matches after the commented-out one; the comment, the blank line and the
\* later line with the same entry are still there.
C22_Witness ==
    /\ ret.op = "Hosts.RemoveEntry" /\ call.op = "Hosts.RemoveEntry"
    /\ ret.err = "nil"
    /\ prevDisk[HostsFilename(HsDomain)].data \in HostsTexts
    /\ EntryLines(prevDisk, call) = {2, 4}
    /\ disk[HostsFilename(HsDomain)].data =
          <<HComment, HEntry("10.0.0.1", "h1"), LF, LF, HEntry("10.0.0.1", "h1"), LF>>

\* C23: RemoveEntry for an (ip, hostname) pair that no line of the hosts
\* file carries returns an error that says so, not success, and leaves the
\* file as it was.
C23_RemoveEntryNotFound ==
    (/\ ret.op = "Hosts.RemoveEntry" /\ call.op = "Hosts.RemoveEntry"
     /\ Exists(prevDisk, HostsFilename(call.dom))
     /\ EntryLines(prevDisk, call) = {}) =>
        /\ ret.err # "nil"
        /\ disk = prevDisk


\* C29: a successful AddRecord or RemoveRecord, with any record the handler
\* lets through, on a zone file that passes Validate leaves a file that
\* passes Validate.
C29_MutatorsKeepValid ==
    (/\ ret.op \in {"Zone.AddRecord", "Zone.RemoveRecord"}
     /\ ret.err = "nil"
     /\ Exists(prevDisk, ZoneFilename(ret.dom))
     /\ ZoneValidate(ret.dom, prevDisk[ZoneFilename(ret.dom)].data) = "nil") =>
        /\ Exists(disk, ZoneFilename(ret.dom))
        /\ ZoneValidate(ret.dom, disk[ZoneFilename(ret.dom)].data) = "nil"

\* The lines of a text that are the NS record of the apex that Create
\* writes, each parsed alone as matchesRecord parses it.
ApexNSLines(content, origin) ==
    SelectSeq(SplitLF(content),
              LAMBDA line : matchesRecord(line, <<"@">>, "NS",
                                          <<"n", "s", "1", ".">> \o origin, origin))

\* C30: a successful AddRecord or RemoveRecord leaves the NS lines of the
\* apex as they were; RemoveRecord(d, "@", NS, v) removes no such line.
C30_ApexNSKept ==
    (/\ ret.op \in {"Zone.AddRecord", "Zone.RemoveRecord"}
     /\ ret.err = "nil"
     /\ Exists(prevDisk, ZoneFilename(ret.dom))) =>
        ApexNSLines(FileAt(disk, ZoneFilename(ret.dom)).data, Fqdn(ret.dom)) =
            ApexNSLines(prevDisk[ZoneFilename(ret.dom)].data, Fqdn(ret.dom))


(***************************************************************************)
(* The claims about the shared directory (SpecShared).                     *)
(***************************************************************************)
\* The paths of the GSLB configurations of the domains of the model.
GSLBPaths == {GSLBFilename(d) : d \in {x \in ShDomains : ValidateDomain(x) = "nil"}}

\* C26: in the shared directory the zone file of a valid domain is never
\* the GSLB configuration file of a valid domain; so no operation of
\* ZoneManager changes or removes a GSLB configuration, Read returns none
\* as the text of a zone, and List names none as a zone.
C26_DisjointFiles ==
    /\ \A d1 \in ShDomains :
          ValidateDomain(d1) = "nil" => ZoneFilename(d1) \notin GSLBPaths
    /\ (ret.op \in {"Zone.Create", "Zone.Write", "Zone.Delete", "Zone.Read", "Zone.List"}) =>
          \A f \in GSLBPaths : FileAt(disk, f) = FileAt(prevDisk, f)
    /\ (ret.op = "Zone.Read" /\ call.op = "Zone.Read") =>
          \A f \in GSLBPaths : call.zf.Raw # FileAt(prevDisk, f).data
    /\ (ret.op = "Zone.List" /\ call.op = "Zone.List") =>
          \A d \in call.domains : ZoneFilename(d) \notin GSLBPaths


(***************************************************************************)
(* The claims about the lock of the handlers (SpecServe).                  *)
(***************************************************************************)
\* The goroutines whose request was the form f and whose write succeeded.
Wrote(f) == {g \in Goroutines : reqs[g].pc >= 1 /\ reqs[g].wrote /\ reqs[g].form = f}

\* How many elements of the sequence s are x.
Occurrences(s, x) == Cardinality({i \in 1..Len(s) : s[i] = x})

\* C24: no addition is lost: the zone file has a line for every
\* ZonesAddRecord request that succeeded, the hosts file a line for every
\* HostsAddEntry request that succeeded and the GSLB record a backend for
\* every GSLBAddBackend request that succeeded, however the requests
\* interleave; two requests that add the same thing leave it twice.
C24_NoLostUpdate ==
    \A f \in SvForms :
        /\ f.h = "ZonesAddRecord" =>
              Occurrences(SplitLF(FileAt(disk, ZoneFilename(f.dom)).data),
                          formatRecord(f.rec)) >= Cardinality(Wrote(f))
        /\ f.h = "HostsAddEntry" =>
              Occurrences(SplitLF(FileAt(disk, HostsFilename(f.dom)).data),
                          <<HEntry(f.ip, f.host)>>) >= Cardinality(Wrote(f))
        /\ f.h = "GSLBAddBackend" =>
              Occurrences(GSLBRead(disk, f.dom, "none").cfg.records[f.name].backends,
                          f.backend) >= Cardinality(Wrote(f))

\* Two ZonesAddRecord requests with different records were both waiting for
\* the lock, both succeeded, and the zone file has both lines.
C24_Witness ==
    /\ reqs[1].pc >= 1 /\ reqs[2].pc >= 1
    /\ reqs[1].h = "ZonesAddRecord" /\ reqs[2].h = "ZonesAddRecord"
    /\ reqs[1].form # reqs[2].form
    /\ reqs[1].wrote /\ reqs[2].wrote
    /\ reqs[1].contended
    /\ LET lines == SplitLF(disk[ZoneFilename(SvDomain)].data)
       IN /\ Occurrences(lines, formatRecord(reqs[1].form.rec)) = 1
          /\ Occurrences(lines, formatRecord(reqs[2].form.rec)) = 1

\* The goroutine is at Lock or RLock and the call does not return.
Blocked(g) ==
    \/ SvStep(reqs[g]) = Lk /\ ~CanLock(mu)
    \/ SvStep(reqs[g]) = RLk /\ ~CanRLock(mu)

\* C25: the artifact types have locks of their own: a request that holds the
\* write lock blocks a request only if the two touch an artifact type in
\* common.
C25_IndependentLocks ==
    \A g1, g2 \in Goroutines :
        (Held(mu, g1) = "w" /\ Blocked(g2)) =>
            reqs[g1].form.kinds \cap reqs[g2].form.kinds # {}

\* C27: every call of a manager's Read, ReadRaw or List and of Corefile
\* Read is made by a goroutine that holds the read lock or the write lock,
\* and every call of a mutator by one that holds the write lock.
C27_ReadsUnderLock ==
    \A g \in Goroutines :
        reqs[g].pc >= 1 =>
            \A c \in reqs[g].calls :
                IF c.op \in {"Zones.AddRecord", "GSLB.AddBackend", "Hosts.AddEntry"}
                THEN c.held = "w"
                ELSE c.held \in {"r", "w"}


====
